---------------------------- MODULE Spec2Model ----------------------------
(***************************************************************************)
(* A model of scancode-toolkit's packagedcode: the package data model of   *)
(* src/packagedcode/models.py (Package, its sub types and their file       *)
(* signatures) and the PHP Composer manifest parser of                     *)
(* src/packagedcode/phpcomposer.py (build_package and its field mappers).  *)
(*                                                                         *)
(* Python values are tagged records [t, v].  A Python string is a sequence *)
(* of one-character strings, so that strip, startswith, "in", partition    *)
(* and join are computed character by character as Python computes them.   *)
(* A dict is the ordered sequence of its <<key, value>> pairs (the parser  *)
(* loads JSON objects as OrderedDict).                                     *)
(***************************************************************************)
EXTENDS Integers, Sequences, FiniteSets, TLC

VARIABLES
    package_data,   \* build_package: the decoded manifest handed to it
    result,         \* build_package: what the call produced (package or exception)
    query,          \* registry: the file signals handed to match
    matched,        \* registry: the answer of match
    package,        \* mapper runs: the package the mappers are applied to
    call,           \* mapper runs: the last mapper application (name, argument, exception)
    napplied,       \* mapper runs: number of mapper applications so far
    location,       \* parse: the path handed to it, with what the file system holds there
    opened,         \* parse: the file at location has been opened and read
    other,          \* model operations: a second package instance
    answer,         \* model operations: the last method call and what it gave
    heap,           \* scan: the Package instances constructed so far
    tasks           \* scan: the parse tasks of a scan, one per manifest

vars == <<package_data, result, query, matched, package, call, napplied,
          location, opened, other, answer, heap, tasks>>

----------------------------------------------------------------------------
(* Python values *)

None == [t |-> "none", v |-> <<>>]
Str(s) == [t |-> "str", v |-> s]
List(xs) == [t |-> "list", v |-> xs]
Dict(pairs) == [t |-> "dict", v |-> pairs]
Num(n) == [t |-> "int", v |-> n]
Bool(b) == [t |-> "bool", v |-> b]

\* Python truth value testing: None, False, 0, '', [] and {} are false.
Truthy(x) ==
    CASE x.t = "none" -> FALSE
      [] x.t = "bool" -> x.v
      [] x.t = "int" -> x.v # 0
      [] OTHER -> Len(x.v) > 0

\* isinstance(value, basestring) and isinstance(value, list)
IsString(x) == x.t = "str"
IsList(x) == x.t = "list"
IsDict(x) == x.t = "dict"

RECURSIVE PairsGet(_, _)
PairsGet(pairs, key) ==
    IF pairs = <<>> THEN None
    ELSE IF Head(pairs)[1] = key THEN Head(pairs)[2]
    ELSE PairsGet(Tail(pairs), key)

\* dict.get(key): the value of the key, None when the key is absent
DictGet(d, key) == PairsGet(d.v, key)

HasKey(d, key) == \E i \in 1..Len(d.v) : d.v[i][1] = key

----------------------------------------------------------------------------
(* Python string operations, on sequences of characters *)

Whitespace == {" ", "\t", "\n", "\r"}

RECURSIVE LStrip(_, _)
LStrip(s, chars) ==
    IF s # <<>> /\ Head(s) \in chars THEN LStrip(Tail(s), chars) ELSE s

RECURSIVE RStrip(_, _)
RStrip(s, chars) ==
    IF s # <<>> /\ s[Len(s)] \in chars
    THEN RStrip(SubSeq(s, 1, Len(s) - 1), chars) ELSE s

\* unicode.strip(): leading and trailing whitespace removed
strip(s) == RStrip(LStrip(s, Whitespace), Whitespace)

\* unicode.strip(chars)
strip_chars(s, chars) == RStrip(LStrip(s, chars), chars)

\* s.startswith(prefix)
startswith(s, prefix) ==
    Len(prefix) <= Len(s) /\ SubSeq(s, 1, Len(prefix)) = prefix

\* sub in s
contains(s, sub) ==
    \E i \in 0..(Len(s) - Len(sub)) : SubSeq(s, i + 1, i + Len(sub)) = sub

\* s.endswith(suffix)
endswith(s, suffix) ==
    Len(suffix) <= Len(s) /\ SubSeq(s, Len(s) - Len(suffix) + 1, Len(s)) = suffix

RECURSIVE Find(_, _, _)
Find(s, c, i) ==
    IF i > Len(s) THEN 0 ELSE IF s[i] = c THEN i ELSE Find(s, c, i + 1)

\* s.partition(sep) for a one-character sep: (head, sep, tail), or (s, '', '')
partition(s, sep) ==
    LET i == Find(s, sep, 1) IN
    IF i = 0 THEN <<s, <<>>, <<>>>>
    ELSE <<SubSeq(s, 1, i - 1), <<sep>>, SubSeq(s, i + 1, Len(s))>>

RECURSIVE join(_, _)
\* sep.join(parts)
join(sep, parts) ==
    IF parts = <<>> THEN <<>>
    ELSE IF Len(parts) = 1 THEN parts[1]
    ELSE parts[1] \o sep \o join(sep, Tail(parts))

Digit(d) == <<"0", "1", "2", "3", "4", "5", "6", "7", "8", "9">>[d + 1]

RECURSIVE Decimal(_)
Decimal(n) == IF n < 10 THEN <<Digit(n)>> ELSE Decimal(n \div 10) \o <<Digit(n % 10)>>

S_OrderedDict == <<"O","r","d","e","r","e","d","D","i","c","t","(","[">>
S_True == <<"T","r","u","e">>
S_False == <<"F","a","l","s","e">>
S_None == <<"N","o","n","e">>
S_comma == <<",", " ">>

RECURSIVE repr(_)
RECURSIVE ReprItems(_)
RECURSIVE ReprPairs(_)
\* repr(value) of Python 2 for the values json.load produces (unicode strings
\* print as u'...', objects as OrderedDict([...]))
repr(x) ==
    CASE x.t = "none" -> S_None
      [] x.t = "bool" -> IF x.v THEN S_True ELSE S_False
      [] x.t = "int" -> IF x.v < 0 THEN <<"-">> \o Decimal(0 - x.v) ELSE Decimal(x.v)
      [] x.t = "str" -> <<"u", "'">> \o x.v \o <<"'">>
      [] x.t = "list" -> <<"[">> \o join(S_comma, ReprItems(x.v)) \o <<"]">>
      [] x.t = "dict" -> S_OrderedDict \o join(S_comma, ReprPairs(x.v)) \o <<"]", ")">>
ReprItems(xs) ==
    IF xs = <<>> THEN <<>> ELSE <<repr(Head(xs))>> \o ReprItems(Tail(xs))
ReprPairs(ps) ==
    IF ps = <<>> THEN <<>>
    ELSE <<<<"(">> \o repr(Str(Head(ps)[1])) \o S_comma \o repr(Head(ps)[2]) \o <<")">>>>
         \o ReprPairs(Tail(ps))

----------------------------------------------------------------------------
(* packagedcode.models: constants and model classes *)

party_person == <<"p","e","r","s","o","n">>
party_project == <<"p","r","o","j","e","c","t">>
party_org == <<"o","r","g","a","n","i","z","a","t","i","o","n">>
PARTY_TYPES == <<party_person, party_project, party_org>>

dep_runtime == <<"r","u","n","t","i","m","e">>
dep_dev == <<"d","e","v","e","l","o","p","m","e","n","t">>
dep_test == <<"t","e","s","t">>
dep_build == <<"b","u","i","l","d">>
dep_optional == <<"o","p","t","i","o","n","a","l">>
dep_bundled == <<"b","u","n","d","l","e","d">>
dep_ci == <<"c","o","n","t","i","n","u","o","u","s"," ","i","n","t","e","g","r","a","t","i","o","n">>
DEPENDENCY_GROUPS ==
    <<dep_runtime, dep_dev, dep_optional, dep_test, dep_build, dep_ci, dep_bundled>>

S_git == <<"g","i","t">>
S_svn == <<"s","v","n">>
S_hg == <<"h","g">>
S_bzr == <<"b","z","r">>
S_cvs == <<"c","v","s">>
S_fossil == <<"f","o","s","s","i","l">>
VCS_CHOICES == <<S_git, S_svn, S_hg, S_bzr, S_cvs>>

S_phpcomposer == <<"p","h","p","c","o","m","p","o","s","e","r">>
S_PHP == <<"P","H","P">>

\* Party(**kwargs): the keyword arguments become the instance's data
Party(type, name, role, email, url) ==
    [class |-> "Party", type |-> type, name |-> name, role |-> role,
     email |-> email, url |-> url]

\* Dependency(name=, version=): fields name (required) and version
Dependency(name, version) ==
    [class |-> "Dependency", name |-> name, version |-> version]

\* BasePackage(type=, name=, version=): fields type, name, version, payload_type
BasePackage(type, name, version) ==
    [class |-> "BasePackage", type |-> type, name |-> name, version |-> version,
     payload_type |-> None]

\* Package(location=None, **kwargs) of a sub type: every field declared by
\* Package, list fields at an empty list of their own, dependencies at an
\* empty dict, the sub type's defaults for type, primary_language, packaging
NewPackage(class, type, primary_language, packaging) ==
    [class |-> class, location |-> None,
     type |-> type, name |-> None, version |-> None,
     primary_language |-> primary_language, packaging |-> packaging,
     summary |-> None, description |-> None, payload_type |-> None,
     size |-> None, release_date |-> None,
     authors |-> List(<<>>), maintainers |-> List(<<>>),
     contributors |-> List(<<>>), owners |-> List(<<>>),
     packagers |-> List(<<>>), distributors |-> List(<<>>),
     vendors |-> List(<<>>),
     keywords |-> List(<<>>), keywords_doc_url |-> None,
     homepage_url |-> None, download_urls |-> List(<<>>),
     download_sha1 |-> None, download_sha256 |-> None, download_md5 |-> None,
     bug_tracking_url |-> None, support_contacts |-> List(<<>>),
     code_view_url |-> None,
     vcs_tool |-> None, vcs_repository |-> None, vcs_revision |-> None,
     copyrights |-> List(<<>>),
     asserted_license |-> None, license_expression |-> None,
     license_texts |-> List(<<>>), notice_text |-> None,
     dependencies |-> Dict(<<>>), related_packages |-> List(<<>>)]

\* PHPComposerPackage(): type 'phpcomposer', primary_language 'PHP'
PHPComposerPackage == NewPackage("PHPComposerPackage", Str(S_phpcomposer), Str(S_PHP), None)

\* hasattr(obj, attr): the attribute is a declared field (or location)
HasAttr(obj, attr) == attr \in DOMAIN obj

\* the outcome of a call that mutates a package: the package as the call
\* left it, and the exception that ended the call ("" when it returned)
Ok(p) == [package |-> p, raised |-> ""]
Raise(p, exception) == [package |-> p, raised |-> exception]

----------------------------------------------------------------------------
(* packagedcode.phpcomposer: the field mappers *)

K_name == <<"n","a","m","e">>
K_description == <<"d","e","s","c","r","i","p","t","i","o","n">>
K_keywords == <<"k","e","y","w","o","r","d","s">>
K_version == <<"v","e","r","s","i","o","n">>
K_homepage == <<"h","o","m","e","p","a","g","e">>
K_authors == <<"a","u","t","h","o","r","s">>
K_license == <<"l","i","c","e","n","s","e">>
K_require == <<"r","e","q","u","i","r","e">>
K_require_dev == <<"r","e","q","u","i","r","e","-","d","e","v">>
K_repositories == <<"r","e","p","o","s","i","t","o","r","i","e","s">>
K_support == <<"s","u","p","p","o","r","t">>
K_type == <<"t","y","p","e">>
K_url == <<"u","r","l">>
K_vcs == <<"v","c","s">>
K_issues == <<"i","s","s","u","e","s">>
K_source == <<"s","o","u","r","c","e">>
K_role == <<"r","o","l","e">>
K_email == <<"e","m","a","i","l">>
S_vendor == <<"v","e","n","d","o","r">>
S_OR == <<" ","O","R"," ">>
S_subversion_host == <<"s","u","b","v","e","r","s","i","o","n",".","a","p","a","c","h","e",".","o","r","g">>
S_mercurial_host == <<"m","e","r","c","u","r","i","a","l",".","s","e","l","e","n","i","c",".","c","o","m">>
S_fossil_host == <<"f","o","s","s","i","l","-","s","c","m",".","o","r","g">>

\* x or None
OrNone(x) == IF Truthy(x) THEN x ELSE None

RECURSIVE StrippedLicenses(_)
\* [l.strip() for l in licenses if l and l.strip()]
StrippedLicenses(ls) ==
    IF ls = <<>> THEN <<>>
    ELSE (IF Truthy(Head(ls)) /\ strip(Head(ls).v) # <<>>
          THEN <<strip(Head(ls).v)>> ELSE <<>>) \o StrippedLicenses(Tail(ls))

licensing_mapper(licenses, p) ==
    IF ~Truthy(licenses) THEN Ok(p)
    ELSE IF IsList(licenses)
    THEN \* l.strip() of a non-empty entry that is no string: no such attribute
         IF \E i \in 1..Len(licenses.v) :
                Truthy(licenses.v[i]) /\ ~IsString(licenses.v[i])
         THEN Raise(p, "AttributeError")
         ELSE Ok([p EXCEPT !.asserted_license =
                        Str(join(S_OR, StrippedLicenses(licenses.v)))])
    ELSE IF ~IsString(licenses)
    THEN Ok([p EXCEPT !.asserted_license = Str(repr(licenses))])
    ELSE Ok([p EXCEPT !.asserted_license = licenses])

\* x and x.strip(chars)
AndStrip(x, chars) == IF Truthy(x) THEN Str(strip_chars(x.v, chars)) ELSE x

RECURSIVE author_loop(_, _)
\* the loop of author_mapper over the tuples parse_person yields
author_loop(persons, p) ==
    IF persons = <<>> THEN Ok(p)
    ELSE LET person == Head(persons)
             name == DictGet(person, K_name)
             role == DictGet(person, K_role)
             email == DictGet(person, K_email)
             url == DictGet(person, K_homepage)
         IN  IF ~IsDict(person) THEN Raise(p, "AttributeError")
             ELSE IF \E x \in {name, role, email, url} : Truthy(x) /\ ~IsString(x)
             THEN Raise(p, "AttributeError")
             ELSE IF ~HasAttr(p, "parties") THEN Raise(p, "AttributeError")
             ELSE author_loop(Tail(persons),
                    [p EXCEPT !.parties = List(@.v \o
                        <<Party(Str(party_person), AndStrip(name, Whitespace),
                                AndStrip(role, Whitespace),
                                AndStrip(email, {"<", ">", " "}),
                                AndStrip(url, {"(", ")", " "}))>>)])

author_mapper(authors_content, p) ==
    IF ~IsList(authors_content) THEN Raise(p, "ValueError")
    ELSE author_loop(authors_content.v, p)

support_mapper(support, p) ==
    IF ~IsDict(support) THEN Raise(p, "AttributeError")
    ELSE Ok([p EXCEPT !.bug_tracking_url = OrNone(DictGet(support, K_issues)),
                      !.code_view_url = OrNone(DictGet(support, K_source))])

vendor_mapper(p) ==
    LET name == p.name IN
    IF ~Truthy(name) THEN Ok(p)
    ELSE IF name.t \in {"int", "bool"} THEN Raise(p, "TypeError")
    ELSE IF IsList(name)
    THEN IF \E i \in 1..Len(name.v) : name.v[i] = Str(<<"/">>)
         THEN Raise(p, "AttributeError") ELSE Ok(p)
    ELSE IF IsDict(name)
    THEN IF HasKey(name, <<"/">>) THEN Raise(p, "AttributeError") ELSE Ok(p)
    ELSE IF ~contains(name.v, <<"/">>) THEN Ok(p)
    ELSE LET vendor == partition(name.v, "/")[1] IN
         IF vendor = <<>> THEN Ok(p)
         ELSE IF ~HasAttr(p, "parties") THEN Raise(p, "AttributeError")
         ELSE Ok([p EXCEPT !.parties = List(@.v \o
                    <<Party(None, Str(vendor), Str(S_vendor), None, None)>>)])

\* packagedcode.utils.parse_repo_url(repo_url): the normal form of a
\* repository URL, kept as the URL it was computed from
parse_repo_url(repo_url) == [t |-> "repo_url", v |-> repo_url.v]

\* vcs_tool_for with the hg test tried before the svn test
vcs_tool_for_hg_first(repo_url) ==
    IF startswith(repo_url, S_hg) \/ contains(repo_url, S_mercurial_host)
    THEN S_hg
    ELSE IF startswith(repo_url, S_svn) \/ contains(repo_url, S_subversion_host)
    THEN S_svn
    ELSE IF startswith(repo_url, S_fossil) \/ contains(repo_url, S_fossil_host)
    THEN S_fossil
    ELSE S_git

\* the VCS tool repository_mapper picks for the URL of a "vcs" repository
vcs_tool_for(repo_url) ==
    IF startswith(repo_url, S_svn) \/ contains(repo_url, S_subversion_host)
    THEN S_svn
    ELSE IF startswith(repo_url, S_hg) \/ contains(repo_url, S_mercurial_host)
    THEN S_hg
    ELSE IF startswith(repo_url, S_fossil) \/ contains(repo_url, S_fossil_host)
    THEN S_fossil
    ELSE S_git

RECURSIVE repository_loop_first_wins(_, _)
\* the loop ending at the first "vcs" entry
repository_loop_first_wins(repos, p) ==
    IF repos = <<>> THEN Ok(p)
    ELSE LET repo == Head(repos)
             repo_url == DictGet(repo, K_url)
         IN  IF ~IsDict(repo) THEN Raise(p, "AttributeError")
             ELSE IF DictGet(repo, K_type) # Str(K_vcs)
             THEN repository_loop_first_wins(Tail(repos), p)
             ELSE IF ~IsString(repo_url) THEN Raise(p, "AttributeError")
             ELSE Ok([p EXCEPT !.vcs_tool = Str(vcs_tool_for(repo_url.v)),
                               !.vcs_repository = parse_repo_url(repo_url)])

RECURSIVE repository_loop(_, _)
\* for repo in repos: ... of repository_mapper
repository_loop(repos, p) ==
    IF repos = <<>> THEN Ok(p)
    ELSE LET repo == Head(repos)
             repo_url == DictGet(repo, K_url)
         IN  IF ~IsDict(repo) THEN Raise(p, "AttributeError")
             ELSE IF DictGet(repo, K_type) # Str(K_vcs)
             THEN repository_loop(Tail(repos), p)
             ELSE IF ~IsString(repo_url) THEN Raise(p, "AttributeError")
             ELSE repository_loop(Tail(repos),
                    [p EXCEPT !.vcs_tool = Str(vcs_tool_for(repo_url.v)),
                              !.vcs_repository = parse_repo_url(repo_url)])

repository_mapper(repos, p) ==
    IF ~Truthy(repos) THEN Ok(p)
    ELSE IF IsString(repos)
    THEN Ok([p EXCEPT !.vcs_repository = parse_repo_url(repos)])
    ELSE IF IsList(repos) THEN repository_loop(repos.v, p)
    ELSE Ok(p)

\* d[key] = value on the ordered pairs of a dict
DictSet(d, key, value) ==
    IF HasKey(d, key)
    THEN Dict([i \in 1..Len(d.v) |->
                  IF d.v[i][1] = key THEN <<key, value>> ELSE d.v[i]])
    ELSE Dict(Append(d.v, <<key, value>>))

\* deps_mapper storing the new list over the group's existing one
deps_mapper_replacing(deps, p, field_name) ==
    LET resolved_type == IF field_name = "dependencies" THEN dep_runtime ELSE dep_dev
        dependencies == [i \in 1..Len(deps.v) |->
            BasePackage(Str(S_phpcomposer), Str(deps.v[i][1]), deps.v[i][2])]
    IN  IF ~IsDict(deps) THEN Raise(p, "AttributeError")
        ELSE Ok([p EXCEPT !.dependencies =
                    DictSet(@, resolved_type, List(dependencies))])

deps_mapper(deps, p, field_name) ==
    LET resolved_type == IF field_name = "dependencies" THEN dep_runtime ELSE dep_dev
        dependencies == [i \in 1..Len(deps.v) |->
            BasePackage(Str(S_phpcomposer), Str(deps.v[i][1]), deps.v[i][2])]
    IN  IF ~IsDict(deps) THEN Raise(p, "AttributeError")
        ELSE IF HasKey(p.dependencies, resolved_type)
        THEN Ok([p EXCEPT !.dependencies = DictSet(@, resolved_type,
                    List(DictGet(@, resolved_type).v \o dependencies))])
        ELSE Ok([p EXCEPT !.dependencies =
                    DictSet(@, resolved_type, List(dependencies))])

dependencies_mapper(deps, p) == deps_mapper(deps, p, "dependencies")
dev_dependencies_mapper(deps, p) == deps_mapper(deps, p, "devDependencies")

----------------------------------------------------------------------------
(* packagedcode.phpcomposer.build_package *)

plain_fields ==
    << <<K_name, "name">>, <<K_description, "summary">>,
       <<K_keywords, "keywords">>, <<K_version, "version">>,
       <<K_homepage, "homepage_url">> >>

field_mappers ==
    << <<K_authors, "author_mapper">>, <<K_license, "licensing_mapper">>,
       <<K_require, "dependencies_mapper">>,
       <<K_require_dev, "dev_dependencies_mapper">>,
       <<K_repositories, "repository_mapper">>,
       <<K_support, "support_mapper">> >>

\* func(value, package) for the function a field_mappers entry names
CallMapper(func, value, p) ==
    CASE func = "author_mapper" -> author_mapper(value, p)
      [] func = "licensing_mapper" -> licensing_mapper(value, p)
      [] func = "dependencies_mapper" -> dependencies_mapper(value, p)
      [] func = "dev_dependencies_mapper" -> dev_dependencies_mapper(value, p)
      [] func = "repository_mapper" -> repository_mapper(value, p)
      [] func = "support_mapper" -> support_mapper(value, p)

\* the value as it is, a string with its surrounding whitespace
StripIfString_verbatim(value) == value

\* value.strip() when value is a string, value otherwise
StripIfString(value) == IF IsString(value) THEN Str(strip(value.v)) ELSE value

RECURSIVE plain_fields_loop(_, _, _)
\* for source, target in plain_fields.items(): ...
plain_fields_loop(fields, data, p) ==
    IF fields = <<>> THEN p
    ELSE LET value == DictGet(data, Head(fields)[1]) IN
         plain_fields_loop(Tail(fields), data,
            IF Truthy(value) /\ Truthy(StripIfString(value))
            THEN [p EXCEPT ![Head(fields)[2]] = StripIfString(value)]
            ELSE p)

RECURSIVE field_mappers_loop_swallowing(_, _, _)
\* the loop going on with the next mapper when one raises
field_mappers_loop_swallowing(mappers, data, p) ==
    IF mappers = <<>> THEN Ok(p)
    ELSE LET value == DictGet(data, Head(mappers)[1]) IN
         IF Truthy(value) /\ Truthy(StripIfString(value))
         THEN LET r == CallMapper(Head(mappers)[2], StripIfString(value), p) IN
              field_mappers_loop_swallowing(Tail(mappers), data, r.package)
         ELSE field_mappers_loop_swallowing(Tail(mappers), data, p)

RECURSIVE field_mappers_loop(_, _, _)
\* for source, func in field_mappers.items(): ...
field_mappers_loop(mappers, data, p) ==
    IF mappers = <<>> THEN Ok(p)
    ELSE LET value == DictGet(data, Head(mappers)[1]) IN
         IF Truthy(value) /\ Truthy(StripIfString(value))
         THEN LET r == CallMapper(Head(mappers)[2], StripIfString(value), p) IN
              IF r.raised # "" THEN r
              ELSE field_mappers_loop(Tail(mappers), data, r.package)
         ELSE field_mappers_loop(Tail(mappers), data, p)

\* what a call hands to its caller: the package it returned, or the
\* exception it raised
Returned(p) == [status |-> "returned", package |-> p, exception |-> ""]
Raised(exception) == [status |-> "raised", package |-> None, exception |-> exception]

build_package(data, base_dir) ==
    LET new == [PHPComposerPackage EXCEPT !.location = base_dir]
        plain == plain_fields_loop(plain_fields, data, new)
        mapped == field_mappers_loop(field_mappers, data, plain)
        vendored == vendor_mapper(mapped.package)
    IN  IF ~IsDict(data) THEN Raised("AttributeError")
        ELSE IF mapped.raised # "" THEN Raised(mapped.raised)
        ELSE IF vendored.raised # "" THEN Raised(vendored.raised)
        ELSE Returned(vendored.package)

----------------------------------------------------------------------------
(* The manifests build_package is run on *)

MaxKeys == 2        \* keys of one manifest
MaxLicenses == 2    \* entries of a license list
MaxDeps == 2        \* pairs of a require / require-dev object
MaxRepos == 2       \* entries of a repositories list

S_acme_widget == <<"a","c","m","e","/","w","i","d","g","e","t">>
S_acme_widget_padded == <<" ","a","c","m","e","/","w","i","d","g","e","t"," ">>
S_widget == <<"w","i","d","g","e","t">>
S_slash_widget == <<"/","w","i","d","g","e","t">>
S_blank == <<" "," ">>
S_MIT == <<"M","I","T">>
S_MIT_padded == <<" ","M","I","T"," ">>
S_Apache == <<"A","p","a","c","h","e","-","2",".","0">>
S_Apache_padded == <<" ","A","p","a","c","h","e","-","2",".","0"," ">>
S_php == <<"p","h","p">>
S_php_constraint == <<">","=","7",".","0">>
S_monolog == <<"m","o","n","o","l","o","g","/","m","o","n","o","l","o","g">>
S_monolog_constraint == <<"^","1",".","0">>
S_phpunit == <<"p","h","p","u","n","i","t","/","p","h","p","u","n","i","t">>
S_phpunit_constraint == <<"~","4",".","8">>
S_github_host == <<"g","i","t","h","u","b",".","c","o","m">>
S_https == <<"h","t","t","p","s">>
S_packagist_url == <<"h","t","t","p","s",":","/","/","p","a","c","k","a","g","e","s",".","e","x","a","m","p","l","e",".","c","o","m">>
S_composer == <<"c","o","m","p","o","s","e","r">>
S_Nils == <<"N","i","l","s"," ","A","d","e","r","m","a","n","n">>
S_summary == <<" ","A"," ","w","i","d","g","e","t"," ">>
S_one_zero == <<"1",".","0">>
S_homepage == <<"h","t","t","p","s",":","/","/","a","c","m","e",".","e","x","a","m","p","l","e">>
S_issues_url == <<"h","t","t","p","s",":","/","/","a","c","m","e",".","e","x","a","m","p","l","e","/","i","s","s","u","e","s">>
S_source_url == <<"h","t","t","p","s",":","/","/","a","c","m","e",".","e","x","a","m","p","l","e","/","s","r","c">>
S_src == <<"/","s","r","c">>

\* the sequences over S of length at most n
SeqsUpTo(S, n) == UNION {[1..k -> S] : k \in 0..n}

\* the dicts of at most n pairs of the pool, no key twice, in every order
DictsUpTo(pool, n) ==
    {Dict(q) : q \in {s \in SeqsUpTo(pool, n) :
        \A i, j \in 1..Len(s) : i # j => s[i][1] # s[j][1]}}

\* scheme://host/x/y
RepoUrl(scheme, host) == scheme \o <<":", "/", "/">> \o host \o <<"/", "x", "/", "y">>

S_github_url == RepoUrl(S_https, S_github_host)
S_fossil_url == RepoUrl(S_https, S_fossil_host)

NameValues ==
    {Str(S_acme_widget), Str(S_acme_widget_padded), Str(S_widget),
     Str(S_slash_widget), Str(S_blank), Str(<<>>)}

LicenseEntries == {Str(S_MIT), Str(S_Apache_padded), Str(S_blank)}

LicenseValues ==
    {Str(S_MIT), Str(S_MIT_padded), Str(S_blank)}
    \cup {List(l) : l \in SeqsUpTo(LicenseEntries, MaxLicenses)}
    \cup {List(<<Num(7)>>), None, Num(0), Num(7), Bool(TRUE), Dict(<<>>),
          Dict(<< <<K_type, Str(S_MIT)>> >>)}

RequireValues ==
    DictsUpTo({<<S_php, Str(S_php_constraint)>>,
               <<S_monolog, Str(S_monolog_constraint)>>}, MaxDeps)
    \cup {Str(S_php)}

RequireDevValues ==
    DictsUpTo({<<S_phpunit, Str(S_phpunit_constraint)>>}, MaxDeps)

RepositoryEntries ==
    {Dict(<< <<K_type, Str(K_vcs)>>, <<K_url, Str(S_fossil_url)>> >>),
     Dict(<< <<K_type, Str(S_composer)>>, <<K_url, Str(S_packagist_url)>> >>)}

RepositoriesValues ==
    {List(l) : l \in SeqsUpTo(RepositoryEntries, MaxRepos)}
    \cup {Str(S_github_url)}

AuthorsValues ==
    {List(<<Dict(<< <<K_name, Str(S_Nils)>> >>)>>), Str(S_Nils)}

SupportValues ==
    {Dict(<< <<K_issues, Str(S_issues_url)>>, <<K_source, Str(S_source_url)>> >>),
     Dict(<< <<K_issues, Str(S_issues_url)>> >>)}

\* the manifest keys build_package reads, and the values each is given
ManifestKeys ==
    <<K_name, K_description, K_keywords, K_version, K_homepage, K_authors,
      K_license, K_require, K_require_dev, K_repositories, K_support>>

ManifestValues(key) ==
    CASE key = K_name -> NameValues
      [] key = K_description -> {Str(S_summary)}
      [] key = K_keywords -> {List(<<Str(S_php)>>)}
      [] key = K_version -> {Str(S_one_zero)}
      [] key = K_homepage -> {Str(S_homepage)}
      [] key = K_authors -> AuthorsValues
      [] key = K_license -> LicenseValues
      [] key = K_require -> RequireValues
      [] key = K_require_dev -> RequireDevValues
      [] key = K_repositories -> RepositoriesValues
      [] key = K_support -> SupportValues

\* the keys of ManifestKeys at the positions of S, in the order of ManifestKeys
KeysAt(S) ==
    LET at == SelectSeq([i \in 1..Len(ManifestKeys) |-> i], LAMBDA i : i \in S)
    IN  [j \in 1..Len(at) |-> ManifestKeys[at[j]]]

RECURSIVE ManifestsOver(_)
\* the pair sequences that give each of the keys one of its values
ManifestsOver(keys) ==
    IF keys = <<>> THEN {<<>>}
    ELSE LET rests == ManifestsOver(Tail(keys))
         IN  {<< <<Head(keys), v>> >> \o rest :
                 v \in ManifestValues(Head(keys)), rest \in rests}

\* the manifests of at most n keys
Manifests(n) ==
    {Dict(m) : m \in UNION {ManifestsOver(KeysAt(S)) :
        S \in {T \in SUBSET (1..Len(ManifestKeys)) : Cardinality(T) <= n}}}

BaseDirs == {None, Str(S_src)}

----------------------------------------------------------------------------
(* Specification: build_package run on a manifest *)

Pending == [status |-> "pending", package |-> None, exception |-> ""]

NoQuery == [extension |-> <<>>, mimetype |-> <<>>, filetype |-> <<>>, metafiles |-> {}]
NoCall == [func |-> "", arg |-> None, raised |-> ""]
NoLocation == [is_file |-> FALSE, file_name |-> <<>>, parent_directory |-> <<>>,
               text |-> [valid |-> FALSE, document |-> None]]
NoAnswer == [status |-> "pending", value |-> None, exception |-> ""]

\* parse is not running
IdleParse ==
    /\ location = NoLocation
    /\ opened = FALSE

\* no method of a package has been called
IdleModel ==
    /\ other = None
    /\ answer = NoAnswer

\* no scan is running
IdleScan ==
    /\ heap = <<>>
    /\ tasks = <<>>

Init ==
    /\ IdleScan
    /\ package_data \in Manifests(MaxKeys)
    /\ result = Pending
    /\ query = NoQuery
    /\ matched = "pending"
    /\ package = None
    /\ call = NoCall
    /\ napplied = 0
    /\ IdleParse
    /\ IdleModel

BuildPackage ==
    /\ result.status = "pending"
    /\ \E base_dir \in BaseDirs : result' = build_package(package_data, base_dir)
    /\ UNCHANGED <<package_data, query, matched, package, call, napplied,
                   location, opened, other, answer, heap, tasks>>

Next == BuildPackage

Spec == Init /\ [][Next]_vars

----------------------------------------------------------------------------
(* Specification: the require and require-dev mappers applied, in any      *)
(* order and any number of times, to one package                           *)

MaxApplications == 3    \* mapper applications to the one package

DepsArgs ==
    DictsUpTo({<<S_php, Str(S_php_constraint)>>,
               <<S_monolog, Str(S_monolog_constraint)>>}, MaxDeps)
    \cup {Str(S_php)}

IdleBuild ==
    /\ package_data = Dict(<<>>)
    /\ result = Pending

IdleRegistry ==
    /\ query = NoQuery
    /\ matched = "pending"

InitDeps ==
    /\ IdleScan
    /\ IdleBuild
    /\ IdleRegistry
    /\ package = PHPComposerPackage
    /\ call = NoCall
    /\ napplied = 0
    /\ IdleParse
    /\ IdleModel

\* one application func(arg, package): the package as the call left it
Applied(func, arg, r) ==
    /\ package' = r.package
    /\ call' = [func |-> func, arg |-> arg, raised |-> r.raised]
    /\ napplied' = napplied + 1
    /\ UNCHANGED <<package_data, result, query, matched, location, opened, other, answer,
                   heap, tasks>>

ApplyDependencies ==
    /\ napplied < MaxApplications
    /\ \E deps \in DepsArgs :
          Applied("dependencies_mapper", deps, dependencies_mapper(deps, package))

ApplyDevDependencies ==
    /\ napplied < MaxApplications
    /\ \E deps \in DepsArgs :
          Applied("dev_dependencies_mapper", deps, dev_dependencies_mapper(deps, package))

NextDeps == ApplyDependencies \/ ApplyDevDependencies

SpecDeps == InitDeps /\ [][NextDeps]_vars

----------------------------------------------------------------------------
(* Specification: repository_mapper applied to a package *)

S_example_host == <<"e","x","a","m","p","l","e",".","o","r","g">>

RepoSchemes == {S_https, S_svn, S_hg, S_fossil}
RepoHosts == {S_github_host, S_subversion_host, S_mercurial_host, S_fossil_host}
RepoUrls == {RepoUrl(scheme, host) : scheme \in RepoSchemes, host \in RepoHosts}

RepoEntries ==
    {Dict(<< <<K_type, Str(K_vcs)>>, <<K_url, Str(u)>> >>) : u \in RepoUrls}
    \cup {Dict(<< <<K_type, Str(K_vcs)>> >>),
          Dict(<< <<K_type, Str(S_composer)>>, <<K_url, Str(S_packagist_url)>> >>),
          Dict(<< <<K_url, Str(RepoUrl(S_svn, S_example_host))>> >>)}

ReposArgs ==
    {List(l) : l \in SeqsUpTo(RepoEntries, MaxRepos)}
    \cup {Str(S_github_url), List(<<Str(S_github_url)>>),
          Dict(<< <<K_type, Str(K_vcs)>>, <<K_url, Str(S_github_url)>> >>)}

\* the packages repository_mapper is applied to: a new one, and one that
\* already records a repository
StartPackages ==
    {PHPComposerPackage,
     [PHPComposerPackage EXCEPT !.vcs_tool = Str(S_cvs),
                                !.vcs_repository = Str(S_packagist_url)]}

InitRepos ==
    /\ IdleScan
    /\ IdleBuild
    /\ IdleRegistry
    /\ package \in StartPackages
    /\ call = NoCall
    /\ napplied = 0
    /\ IdleParse
    /\ IdleModel

ApplyRepository ==
    /\ napplied = 0
    /\ \E repos \in ReposArgs :
          Applied("repository_mapper", repos, repository_mapper(repos, package))

NextRepos == ApplyRepository

SpecRepos == InitRepos /\ [][NextRepos]_vars

----------------------------------------------------------------------------
(* The package sub types and the file signals each declares: metafiles,    *)
(* extensions, filetypes, mimetypes (a sub type inherits what it does not  *)
(* declare)                                                                *)

PHPComposerPackageType ==
    [class |-> "PHPComposerPackage",
     metafiles |-> <<<<"c","o","m","p","o","s","e","r",".","j","s","o","n">>>>,
     extensions |-> <<>>,
     filetypes |-> <<<<".","j","s","o","n">>>>,
     mimetypes |-> <<<<"a","p","p","l","i","c","a","t","i","o","n","/","j","s","o","n">>>>]

DebianPackage ==
    [class |-> "DebianPackage",
     metafiles |-> <<<<"*",".","c","o","n","t","r","o","l">>>>,
     extensions |-> <<<<".","d","e","b">>>>,
     filetypes |-> <<<<"d","e","b","i","a","n"," ","b","i","n","a","r","y"," ","p","a","c","k","a","g","e">>>>,
     mimetypes |-> <<<<"a","p","p","l","i","c","a","t","i","o","n","/","x","-","a","r","c","h","i","v","e">>,
          <<"a","p","p","l","i","c","a","t","i","o","n","/","v","n","d",".","d","e","b","i","a","n",".","b","i","n","a","r","y","-","p","a","c","k","a","g","e">>>>]

JavaJar ==
    [class |-> "JavaJar",
     metafiles |-> <<<<"M","E","T","A","-","I","N","F","/","M","A","N","I","F","E","S","T",".","M","F">>>>,
     extensions |-> <<<<".","j","a","r">>>>,
     filetypes |-> <<<<"j","a","v","a"," ","a","r","c","h","i","v","e"," ">>,
          <<"z","i","p"," ","a","r","c","h","i","v","e">>>>,
     mimetypes |-> <<<<"a","p","p","l","i","c","a","t","i","o","n","/","j","a","v","a","-","a","r","c","h","i","v","e">>,
          <<"a","p","p","l","i","c","a","t","i","o","n","/","z","i","p">>>>]

JavaWar ==
    [class |-> "JavaWar",
     metafiles |-> <<<<"W","E","B","-","I","N","F","/","w","e","b",".","x","m","l">>>>,
     extensions |-> <<<<".","w","a","r">>>>,
     filetypes |-> <<<<"j","a","v","a"," ","a","r","c","h","i","v","e"," ">>,
          <<"z","i","p"," ","a","r","c","h","i","v","e">>>>,
     mimetypes |-> <<<<"a","p","p","l","i","c","a","t","i","o","n","/","j","a","v","a","-","a","r","c","h","i","v","e">>,
          <<"a","p","p","l","i","c","a","t","i","o","n","/","z","i","p">>>>]

JavaEar ==
    [class |-> "JavaEar",
     metafiles |-> <<<<"M","E","T","A","-","I","N","F","/","a","p","p","l","i","c","a","t","i","o","n",".","x","m","l">>,
          <<"M","E","T","A","-","I","N","F","/","e","j","b","-","j","a","r",".","x","m","l">>>>,
     extensions |-> <<<<".","e","a","r">>>>,
     filetypes |-> <<<<"j","a","v","a"," ","a","r","c","h","i","v","e"," ">>,
          <<"z","i","p"," ","a","r","c","h","i","v","e">>>>,
     mimetypes |-> <<<<"a","p","p","l","i","c","a","t","i","o","n","/","j","a","v","a","-","a","r","c","h","i","v","e">>,
          <<"a","p","p","l","i","c","a","t","i","o","n","/","z","i","p">>>>]

Axis2Mar ==
    [class |-> "Axis2Mar",
     metafiles |-> <<<<"M","E","T","A","-","I","N","F","/","m","o","d","u","l","e",".","x","m","l">>>>,
     extensions |-> <<<<".","m","a","r">>>>,
     filetypes |-> <<<<"j","a","v","a"," ","a","r","c","h","i","v","e"," ">>,
          <<"z","i","p"," ","a","r","c","h","i","v","e">>>>,
     mimetypes |-> <<<<"a","p","p","l","i","c","a","t","i","o","n","/","j","a","v","a","-","a","r","c","h","i","v","e">>,
          <<"a","p","p","l","i","c","a","t","i","o","n","/","z","i","p">>>>]

JBossSar ==
    [class |-> "JBossSar",
     metafiles |-> <<<<"M","E","T","A","-","I","N","F","/","j","b","o","s","s","-","s","e","r","v","i","c","e",".","x","m","l">>>>,
     extensions |-> <<<<".","s","a","r">>>>,
     filetypes |-> <<<<"j","a","v","a"," ","a","r","c","h","i","v","e"," ">>,
          <<"z","i","p"," ","a","r","c","h","i","v","e">>>>,
     mimetypes |-> <<<<"a","p","p","l","i","c","a","t","i","o","n","/","j","a","v","a","-","a","r","c","h","i","v","e">>,
          <<"a","p","p","l","i","c","a","t","i","o","n","/","z","i","p">>>>]

IvyJar ==
    [class |-> "IvyJar",
     metafiles |-> <<<<"i","v","y",".","x","m","l">>>>,
     extensions |-> <<<<".","j","a","r">>>>,
     filetypes |-> <<<<"j","a","v","a"," ","a","r","c","h","i","v","e"," ">>,
          <<"z","i","p"," ","a","r","c","h","i","v","e">>>>,
     mimetypes |-> <<<<"a","p","p","l","i","c","a","t","i","o","n","/","j","a","v","a","-","a","r","c","h","i","v","e">>,
          <<"a","p","p","l","i","c","a","t","i","o","n","/","z","i","p">>>>]

BowerPackage ==
    [class |-> "BowerPackage",
     metafiles |-> <<<<"b","o","w","e","r",".","j","s","o","n">>>>,
     extensions |-> <<>>,
     filetypes |-> <<>>,
     mimetypes |-> <<>>]

MeteorPackage ==
    [class |-> "MeteorPackage",
     metafiles |-> <<<<"p","a","c","k","a","g","e",".","j","s">>>>,
     extensions |-> <<>>,
     filetypes |-> <<>>,
     mimetypes |-> <<>>]

CpanModule ==
    [class |-> "CpanModule",
     metafiles |-> <<<<"*",".","p","o","d">>,
          <<"*",".","p","m">>,
          <<"M","A","N","I","F","E","S","T">>,
          <<"M","a","k","e","f","i","l","e",".","P","L">>,
          <<"M","E","T","A",".","y","m","l">>,
          <<"M","E","T","A",".","j","s","o","n">>,
          <<"*",".","m","e","t","a">>,
          <<"d","i","s","t",".","i","n","i">>>>,
     extensions |-> <<<<".","t","a","r",".","g","z">>>>,
     filetypes |-> <<>>,
     mimetypes |-> <<>>]

Godep ==
    [class |-> "Godep",
     metafiles |-> <<<<"G","o","d","e","p","s">>>>,
     extensions |-> <<>>,
     filetypes |-> <<>>,
     mimetypes |-> <<>>]

RubyGem ==
    [class |-> "RubyGem",
     metafiles |-> <<<<"*",".","c","o","n","t","r","o","l">>,
          <<"*",".","g","e","m","s","p","e","c">>,
          <<"G","e","m","f","i","l","e">>,
          <<"G","e","m","f","i","l","e",".","l","o","c","k">>>>,
     extensions |-> <<<<".","g","e","m">>>>,
     filetypes |-> <<<<".","t","a","r">>, <<"t","a","r"," ","a","r","c","h","i","v","e">>>>,
     mimetypes |-> <<<<"a","p","p","l","i","c","a","t","i","o","n","/","x","-","t","a","r">>>>]

AndroidApp ==
    [class |-> "AndroidApp",
     metafiles |-> <<>>,
     extensions |-> <<<<".","a","p","k">>>>,
     filetypes |-> <<<<"z","i","p"," ","a","r","c","h","i","v","e">>>>,
     mimetypes |-> <<<<"a","p","p","l","i","c","a","t","i","o","n","/","z","i","p">>>>]

AndroidLibrary ==
    [class |-> "AndroidLibrary",
     metafiles |-> <<>>,
     extensions |-> <<<<".","a","a","r">>>>,
     filetypes |-> <<<<"z","i","p"," ","a","r","c","h","i","v","e">>>>,
     mimetypes |-> <<<<"a","p","p","l","i","c","a","t","i","o","n","/","z","i","p">>>>]

MozillaExtension ==
    [class |-> "MozillaExtension",
     metafiles |-> <<>>,
     extensions |-> <<<<".","x","p","i">>>>,
     filetypes |-> <<<<"z","i","p"," ","a","r","c","h","i","v","e">>>>,
     mimetypes |-> <<<<"a","p","p","l","i","c","a","t","i","o","n","/","z","i","p">>>>]

ChromeExtension ==
    [class |-> "ChromeExtension",
     metafiles |-> <<>>,
     extensions |-> <<<<".","c","r","x">>>>,
     filetypes |-> <<<<"d","a","t","a">>>>,
     mimetypes |-> <<<<"a","p","p","l","i","c","a","t","i","o","n","/","o","c","t","e","t","-","s","t","r","e","a","m">>>>]

IOSApp ==
    [class |-> "IOSApp",
     metafiles |-> <<>>,
     extensions |-> <<<<".","i","p","a">>>>,
     filetypes |-> <<<<"z","i","p"," ","a","r","c","h","i","v","e">>>>,
     mimetypes |-> <<<<"a","p","p","l","i","c","a","t","i","o","n","/","z","i","p">>>>]

PythonPackage ==
    [class |-> "PythonPackage",
     metafiles |-> <<>>,
     extensions |-> <<<<".","e","g","g">>,
          <<".","w","h","l">>,
          <<".","p","y","z">>,
          <<".","p","e","x">>>>,
     filetypes |-> <<<<"z","i","p"," ","a","r","c","h","i","v","e">>>>,
     mimetypes |-> <<<<"a","p","p","l","i","c","a","t","i","o","n","/","z","i","p">>>>]

CabPackage ==
    [class |-> "CabPackage",
     metafiles |-> <<>>,
     extensions |-> <<<<".","c","a","b">>>>,
     filetypes |-> <<<<"m","i","c","r","o","s","o","f","t"," ","c","a","b","i","n","e","t">>>>,
     mimetypes |-> <<<<"a","p","p","l","i","c","a","t","i","o","n","/","v","n","d",".","m","s","-","c","a","b","-","c","o","m","p","r","e","s","s","e","d">>>>]

MsiInstallerPackage ==
    [class |-> "MsiInstallerPackage",
     metafiles |-> <<>>,
     extensions |-> <<<<".","m","s","i">>>>,
     filetypes |-> <<<<"m","s","i"," ","i","n","s","t","a","l","l","e","r">>>>,
     mimetypes |-> <<<<"a","p","p","l","i","c","a","t","i","o","n","/","x","-","m","s","i">>>>]

InstallShieldPackage ==
    [class |-> "InstallShieldPackage",
     metafiles |-> <<>>,
     extensions |-> <<<<".","e","x","e">>>>,
     filetypes |-> <<<<"i","n","s","t","a","l","l","s","h","i","e","l","d">>>>,
     mimetypes |-> <<<<"a","p","p","l","i","c","a","t","i","o","n","/","x","-","d","o","s","e","x","e","c">>>>]

NSISInstallerPackage ==
    [class |-> "NSISInstallerPackage",
     metafiles |-> <<>>,
     extensions |-> <<<<".","e","x","e">>>>,
     filetypes |-> <<<<"n","u","l","l","s","o","f","t"," ","i","n","s","t","a","l","l","e","r">>>>,
     mimetypes |-> <<<<"a","p","p","l","i","c","a","t","i","o","n","/","x","-","d","o","s","e","x","e","c">>>>]

SharPackage ==
    [class |-> "SharPackage",
     metafiles |-> <<>>,
     extensions |-> <<<<".","s","h","a">>, <<".","s","h","a","r">>, <<".","b","i","n">>>>,
     filetypes |-> <<<<"p","o","s","i","x"," ","s","h","e","l","l"," ","s","c","r","i","p","t">>>>,
     mimetypes |-> <<<<"t","e","x","t","/","x","-","s","h","e","l","l","s","c","r","i","p","t">>>>]

AppleDmgPackage ==
    [class |-> "AppleDmgPackage",
     metafiles |-> <<>>,
     extensions |-> <<<<".","d","m","g">>, <<".","s","p","a","r","s","e","i","m","a","g","e">>>>,
     filetypes |-> <<<<"z","l","i","b"," ","c","o","m","p","r","e","s","s","e","d">>>>,
     mimetypes |-> <<<<"a","p","p","l","i","c","a","t","i","o","n","/","z","l","i","b">>>>]

IsoImagePackage ==
    [class |-> "IsoImagePackage",
     metafiles |-> <<>>,
     extensions |-> <<<<".","i","s","o">>, <<".","u","d","f">>, <<".","i","m","g">>>>,
     filetypes |-> <<<<"i","s","o"," ","9","6","6","0"," ","c","d","-","r","o","m">>,
          <<"h","i","g","h"," ","s","i","e","r","r","a"," ","c","d","-","r","o","m">>>>,
     mimetypes |-> <<<<"a","p","p","l","i","c","a","t","i","o","n","/","x","-","i","s","o","9","6","6","0","-","i","m","a","g","e">>>>]

SquashfsPackage ==
    [class |-> "SquashfsPackage",
     metafiles |-> <<>>,
     extensions |-> <<>>,
     filetypes |-> <<<<"s","q","u","a","s","h","f","s">>>>,
     mimetypes |-> <<>>]

RarPackage ==
    [class |-> "RarPackage",
     metafiles |-> <<>>,
     extensions |-> <<<<".","r","a","r">>>>,
     filetypes |-> <<<<"r","a","r"," ","a","r","c","h","i","v","e">>>>,
     mimetypes |-> <<<<"a","p","p","l","i","c","a","t","i","o","n","/","x","-","r","a","r">>>>]

TarPackage ==
    [class |-> "TarPackage",
     metafiles |-> <<>>,
     extensions |-> <<<<".","t","a","r">>,
          <<".","t","a","r",".","x","z">>,
          <<".","t","x","z">>,
          <<".","t","a","r","x","z">>,
          <<"t","a","r",".","l","z","m","a">>,
          <<".","t","l","z">>,
          <<".","t","a","r","l","z">>,
          <<".","t","a","r","l","z","m","a">>,
          <<".","t","g","z">>,
          <<".","t","a","r",".","g","z">>,
          <<".","t","a","r",".","g","z","i","p">>,
          <<".","t","a","r","g","z">>,
          <<".","t","a","r","g","z","i","p">>,
          <<".","t","g","z","i","p">>,
          <<".","t","a","r",".","b","z","2">>,
          <<".","t","a","r",".","b","z">>,
          <<".","t","a","r",".","b","z","i","p">>,
          <<".","t","a","r",".","b","z","i","p","2">>,
          <<".","t","b","z">>,
          <<".","t","b","z","2">>,
          <<".","t","b","2">>,
          <<".","t","a","r","b","z","2">>,
          <<".","t","a","r",".","7","z">>,
          <<".","t","a","r",".","7","z","i","p">>,
          <<".","t","7","z">>,
          <<".","t","z">>,
          <<".","t","a","r",".","z">>,
          <<".","t","a","r","z">>>>,
     filetypes |-> <<<<".","t","a","r">>,
          <<"t","a","r"," ","a","r","c","h","i","v","e">>,
          <<"x","z"," ","c","o","m","p","r","e","s","s","e","d">>,
          <<"l","z","m","a"," ","c","o","m","p","r","e","s","s","e","d">>,
          <<"g","z","i","p"," ","c","o","m","p","r","e","s","s","e","d">>,
          <<"b","z","i","p","2"," ","c","o","m","p","r","e","s","s","e","d">>,
          <<"7","-","z","i","p"," ","a","r","c","h","i","v","e">>,
          <<"c","o","m","p","r","e","s","s","'","d"," ","d","a","t","a">>>>,
     mimetypes |-> <<<<"a","p","p","l","i","c","a","t","i","o","n","/","x","-","x","z">>,
          <<"a","p","p","l","i","c","a","t","i","o","n","/","x","-","t","a","r">>,
          <<"a","p","p","l","i","c","a","t","i","o","n","/","x","-","l","z","m","a">>,
          <<"a","p","p","l","i","c","a","t","i","o","n","/","x","-","g","z","i","p">>,
          <<"a","p","p","l","i","c","a","t","i","o","n","/","x","-","b","z","i","p","2">>,
          <<"a","p","p","l","i","c","a","t","i","o","n","/","x","-","7","z","-","c","o","m","p","r","e","s","s","e","d">>,
          <<"a","p","p","l","i","c","a","t","i","o","n","/","x","-","c","o","m","p","r","e","s","s">>>>]

PlainZipPackage ==
    [class |-> "PlainZipPackage",
     metafiles |-> <<>>,
     extensions |-> <<<<".","z","i","p">>, <<".","z","i","p","x">>, <<".","7","z">>>>,
     filetypes |-> <<<<"z","i","p"," ","a","r","c","h","i","v","e">>,
          <<"7","-","z","i","p"," ","a","r","c","h","i","v","e">>>>,
     mimetypes |-> <<<<"a","p","p","l","i","c","a","t","i","o","n","/","z","i","p">>,
          <<"a","p","p","l","i","c","a","t","i","o","n","/","x","-","7","z","-","c","o","m","p","r","e","s","s","e","d">>>>]

\* the sub types with the zip catch-all declared first instead of last
ModelsSubTypes_zip_first ==
    <<PlainZipPackage, DebianPackage, JavaJar, JavaWar, JavaEar, Axis2Mar,
      JBossSar, IvyJar, BowerPackage, MeteorPackage, CpanModule, Godep,
      RubyGem, AndroidApp, AndroidLibrary, MozillaExtension, ChromeExtension,
      IOSApp, PythonPackage, CabPackage, MsiInstallerPackage,
      InstallShieldPackage, NSISInstallerPackage, SharPackage,
      AppleDmgPackage, IsoImagePackage, SquashfsPackage, RarPackage,
      TarPackage>>

ModelsSubTypes ==
    <<DebianPackage,
      JavaJar,
      JavaWar,
      JavaEar,
      Axis2Mar,
      JBossSar,
      IvyJar,
      BowerPackage,
      MeteorPackage,
      CpanModule,
      Godep,
      RubyGem,
      AndroidApp,
      AndroidLibrary,
      MozillaExtension,
      ChromeExtension,
      IOSApp,
      PythonPackage,
      CabPackage,
      MsiInstallerPackage,
      InstallShieldPackage,
      NSISInstallerPackage,
      SharPackage,
      AppleDmgPackage,
      IsoImagePackage,
      SquashfsPackage,
      RarPackage,
      TarPackage,
      PlainZipPackage>>


----------------------------------------------------------------------------
(* The package type registry: the catalogue and match *)

\* the catalogue, in registration order: the Composer type, registered
\* ahead of the sub types of models.py, which follow in their order
PACKAGE_TYPES == <<PHPComposerPackageType>> \o ModelsSubTypes

\* a metafile pattern is a file name, or "*" and the ending of a file name
GlobMatch(pattern, name) ==
    IF pattern # <<>> /\ Head(pattern) = "*"
    THEN endswith(name, Tail(pattern))
    ELSE name = pattern

\* the signature of a type matches on one of the four signals
SignatureMatches(type, q) ==
    \/ \E i \in 1..Len(type.extensions) : type.extensions[i] = q.extension
    \/ \E i \in 1..Len(type.mimetypes) : type.mimetypes[i] = q.mimetype
    \/ \E i \in 1..Len(type.filetypes) : type.filetypes[i] = q.filetype
    \/ \E i \in 1..Len(type.metafiles) :
          \E name \in q.metafiles : GlobMatch(type.metafiles[i], name)

RECURSIVE match_last_from(_, _)
match_last_from(i, q) ==
    IF i = 0 THEN "none"
    ELSE IF SignatureMatches(PACKAGE_TYPES[i], q) THEN PACKAGE_TYPES[i].class
    ELSE match_last_from(i - 1, q)

\* match taking the last type of the catalogue that matches
match_last(q) == match_last_from(Len(PACKAGE_TYPES), q)

RECURSIVE match_from(_, _)
\* the types are tried one after the other from the i-th on
match_from(i, q) ==
    IF i > Len(PACKAGE_TYPES) THEN "none"
    ELSE IF SignatureMatches(PACKAGE_TYPES[i], q) THEN PACKAGE_TYPES[i].class
    ELSE match_from(i + 1, q)

\* match(path_extension, media_type, content_description, present_metafile_names)
match(q) == match_from(1, q)

----------------------------------------------------------------------------
(* Specification: match asked about the signals of one file *)

MaxMetafiles == 2   \* metafile names present beside the file

E_jar == <<".","j","a","r">>
E_zip == <<".","z","i","p">>
E_targz == <<".","t","a","r",".","g","z">>
E_exe == <<".","e","x","e">>
E_txt == <<".","t","x","t">>
M_zip == <<"a","p","p","l","i","c","a","t","i","o","n","/","z","i","p">>
M_json == <<"a","p","p","l","i","c","a","t","i","o","n","/","j","s","o","n">>
M_tar == <<"a","p","p","l","i","c","a","t","i","o","n","/","x","-","t","a","r">>
M_dosexec == <<"a","p","p","l","i","c","a","t","i","o","n","/","x","-","d","o","s","e","x","e","c">>
M_text == <<"t","e","x","t","/","p","l","a","i","n">>
F_zip == <<"z","i","p"," ","a","r","c","h","i","v","e">>
F_tar == <<"t","a","r"," ","a","r","c","h","i","v","e">>
F_json == <<".","j","s","o","n">>
F_text == <<"a","s","c","i","i"," ","t","e","x","t">>
N_composer == <<"c","o","m","p","o","s","e","r",".","j","s","o","n">>
N_gemspec == <<"r","a","i","l","s",".","g","e","m","s","p","e","c">>
N_ivy == <<"i","v","y",".","x","m","l">>
N_godeps == <<"G","o","d","e","p","s">>
N_readme == <<"R","E","A","D","M","E",".","m","d">>
N_control == <<"d","e","b","i","a","n",".","c","o","n","t","r","o","l">>

QueryExtensions == {<<>>, E_jar, E_zip, E_targz, E_exe, E_txt}
QueryMimetypes == {M_zip, M_json, M_tar, M_dosexec, M_text}
QueryFiletypes == {F_zip, F_tar, F_json, F_text}
QueryMetafileNames == {N_composer, N_gemspec, N_ivy, N_godeps, N_readme, N_control}

Queries ==
    [extension : QueryExtensions, mimetype : QueryMimetypes, filetype : QueryFiletypes,
     metafiles : {names \in SUBSET QueryMetafileNames : Cardinality(names) <= MaxMetafiles}]

IdleMappers ==
    /\ package = None
    /\ call = NoCall
    /\ napplied = 0

InitMatch ==
    /\ IdleScan
    /\ IdleBuild
    /\ IdleMappers
    /\ IdleParse
    /\ IdleModel
    /\ query \in Queries
    /\ matched = "pending"

Match ==
    /\ matched = "pending"
    /\ matched' = match(query)
    /\ UNCHANGED <<package_data, result, query, package, call, napplied,
                   location, opened, other, answer, heap, tasks>>

NextMatch == Match

SpecMatch == InitMatch /\ [][NextMatch]_vars

----------------------------------------------------------------------------
(* Claims about build_package, checked under Spec *)

Done == result.status # "pending"

\* the manifest's values, None when the key is absent
ManifestName == DictGet(package_data, K_name)
ManifestLicense == DictGet(package_data, K_license)
ManifestRequire == DictGet(package_data, K_require)

\* the text of a package's asserted license, empty when none is recorded
LicenseText(p) == IF p.asserted_license = None THEN <<>> ELSE p.asserted_license.v

\* the entries of a license list, each trimmed, the empty ones left out
TrimmedEntries(entries) ==
    SelectSeq([i \in 1..Len(entries) |-> strip(entries[i].v)], LAMBDA e : e # <<>>)

\* C3: building a Composer package from a manifest whose license value is a
\* list (of strings) yields a package whose asserted_license is the list's
\* entries, trimmed and without the empty ones, joined with " OR " in order.
C3_ListLicenseJoinedWithOr ==
    (Done /\ IsList(ManifestLicense)
          /\ \A i \in 1..Len(ManifestLicense.v) : IsString(ManifestLicense.v[i]))
    => /\ result.status = "returned"
       /\ LicenseText(result.package) = join(S_OR, TrimmedEntries(ManifestLicense.v))

\* C4: building a Composer package from a manifest whose license value is a
\* string yields a package whose asserted_license is that very string.
C4_StringLicenseVerbatim ==
    (Done /\ IsString(ManifestLicense))
    => /\ result.status = "returned"
       /\ result.package.asserted_license = ManifestLicense

\* C5: whenever the license key is present with a value that is neither a
\* string nor a list, the built package's asserted_license is the textual
\* representation of that value.
C5_OtherLicenseKeptAsText ==
    (Done /\ HasKey(package_data, K_license)
          /\ ~IsString(ManifestLicense) /\ ~IsList(ManifestLicense))
    => /\ result.status = "returned"
       /\ result.package.asserted_license = Str(repr(ManifestLicense))

\* the entries recorded under a dependency group, none when the group is absent
GroupEntries(p, group) ==
    IF HasKey(p.dependencies, group) THEN DictGet(p.dependencies, group).v ELSE <<>>

\* C6: building a Composer package from a manifest whose require object has n
\* pairs yields exactly n entries in the runtime group, one Dependency record
\* (name, version constraint) per pair, in manifest order.
C6_RequireBecomesDependencies ==
    (Done /\ IsDict(ManifestRequire))
    => /\ result.status = "returned"
       /\ GroupEntries(result.package, dep_runtime) =
            [i \in 1..Len(ManifestRequire.v) |->
                Dependency(Str(ManifestRequire.v[i][1]), ManifestRequire.v[i][2])]

\* C9: in every package build_package returns, vcs_tool is unset or one of
\* VCS_CHOICES (git, svn, hg, bzr, cvs).
C9_VcsToolInChoices ==
    result.status = "returned"
    => \/ result.package.vcs_tool = None
       \/ \E i \in 1..Len(VCS_CHOICES) : result.package.vcs_tool = Str(VCS_CHOICES[i])

\* every party recorded on a package, over all of its party lists
AllParties(p) ==
    (IF HasAttr(p, "parties") THEN p.parties.v ELSE <<>>)
    \o p.authors.v \o p.maintainers.v \o p.contributors.v \o p.owners.v
    \o p.packagers.v \o p.distributors.v \o p.vendors.v

VendorParties(p) == SelectSeq(AllParties(p), LAMBDA party : party.role = Str(S_vendor))

\* the name build_package records: the manifest's name, trimmed
RecordedName == strip(ManifestName.v)

\* C10: after build_package the package has a vendor Party named by the
\* segment of name before the first "/" whenever name has a "/" (and a
\* segment before it); when name is missing or has no "/", the package has no
\* vendor Party.
C10_VendorPartyFromName ==
    Done =>
       /\ result.status = "returned"
       /\ IF IsString(ManifestName) /\ contains(RecordedName, <<"/">>)
               /\ partition(RecordedName, "/")[1] # <<>>
          THEN VendorParties(result.package) =
                 <<Party(None, Str(partition(RecordedName, "/")[1]), Str(S_vendor), None, None)>>
          ELSE VendorParties(result.package) = <<>>

----------------------------------------------------------------------------
(* Claims about the require and require-dev mappers, checked under SpecDeps *)

\* the dependency group a mapper records into, and the other one
OwnGroup(func) == IF func = "dependencies_mapper" THEN dep_runtime ELSE dep_dev
OtherGroup(func) == IF func = "dependencies_mapper" THEN dep_dev ELSE dep_runtime

\* the (name, version constraint) of each entry of a group
NamedEntries(p, group) ==
    [i \in 1..Len(GroupEntries(p, group)) |->
        <<GroupEntries(p, group)[i].name, GroupEntries(p, group)[i].version>>]

\* the (name, version constraint) of each pair of a require object
NamedPairs(deps) ==
    IF IsDict(deps) THEN [i \in 1..Len(deps.v) |-> <<Str(deps.v[i][1]), deps.v[i][2]>>]
    ELSE <<>>

\* C7: every application of the require or require-dev mapper appends its
\* entries to the end of its own group's list and leaves the other group as
\* it was; nothing recorded before is replaced or removed.
C7_Step ==
    napplied' = napplied + 1 =>
       /\ NamedEntries(package', OwnGroup(call'.func)) =
            NamedEntries(package, OwnGroup(call'.func)) \o NamedPairs(call'.arg)
       /\ GroupEntries(package', OtherGroup(call'.func)) =
            GroupEntries(package, OtherGroup(call'.func))
       /\ HasKey(package'.dependencies, OtherGroup(call'.func)) =
            HasKey(package.dependencies, OtherGroup(call'.func))

C7_MappersAppendToOwnGroup == [][C7_Step]_vars

\* C7's case: both groups hold entries, the runtime group from more than one
\* application
C7_Witness ==
    /\ napplied = 3
    /\ Len(GroupEntries(package, dep_runtime)) = 3
    /\ Len(GroupEntries(package, dep_dev)) = 1

----------------------------------------------------------------------------
(* Claims about repository_mapper, checked under SpecRepos *)

\* the entries of a repositories list with type == "vcs"
VcsEntries(repos) == SelectSeq(repos.v, LAMBDA repo : DictGet(repo, K_type) = Str(K_vcs))

LastVcsUrl(repos) == DictGet(VcsEntries(repos)[Len(VcsEntries(repos))], K_url).v

SvnUrl(u) == startswith(u, S_svn) \/ contains(u, S_subversion_host)
HgUrl(u) == startswith(u, S_hg) \/ contains(u, S_mercurial_host)
FossilUrl(u) == startswith(u, S_fossil) \/ contains(u, S_fossil_host)

\* the tool the priority order svn, hg, fossil, git gives a URL
ToolByPriority(u) ==
    CASE SvnUrl(u) -> S_svn
      [] ~SvnUrl(u) /\ HgUrl(u) -> S_hg
      [] ~SvnUrl(u) /\ ~HgUrl(u) /\ FossilUrl(u) -> S_fossil
      [] ~SvnUrl(u) /\ ~HgUrl(u) /\ ~FossilUrl(u) -> S_git

\* repository_mapper returned from a list with a "vcs" entry
MappedVcsEntry ==
    /\ call.func = "repository_mapper"
    /\ call.raised = ""
    /\ IsList(call.arg)
    /\ VcsEntries(call.arg) # <<>>

\* C8: for a repositories entry with type == "vcs" the recorded vcs_tool is
\* svn, else hg, else fossil, else git, by the URL's prefix or host, in that
\* priority; https://github.com/x/y gives git, a URL starting with svn gives
\* svn; the normalized URL is recorded as vcs_repository.
C8_VcsToolByPriority ==
    MappedVcsEntry =>
       /\ package.vcs_tool = Str(ToolByPriority(LastVcsUrl(call.arg)))
       /\ package.vcs_repository = parse_repo_url(Str(LastVcsUrl(call.arg)))
       /\ LastVcsUrl(call.arg) = S_github_url => package.vcs_tool = Str(S_git)
       /\ startswith(LastVcsUrl(call.arg), S_svn) => package.vcs_tool = Str(S_svn)

\* C8's case: a URL that passes the svn test and the hg test is recorded as svn
C8_Witness ==
    /\ MappedVcsEntry
    /\ LastVcsUrl(call.arg) = RepoUrl(S_hg, S_subversion_host)
    /\ package.vcs_tool = Str(S_svn)

----------------------------------------------------------------------------
(* Claims about the registry, checked under SpecMatch *)

Range(seq) == {seq[i] : i \in 1..Len(seq)}

\* a type declares the query's extension, media type or content description,
\* or a metafile pattern that one of the present names fits
Recognizes(type, q) ==
    \/ q.extension \in Range(type.extensions)
    \/ q.mimetype \in Range(type.mimetypes)
    \/ q.filetype \in Range(type.filetypes)
    \/ \E pattern \in Range(type.metafiles), name \in q.metafiles :
          \/ name = pattern
          \/ Head(pattern) = "*" /\ endswith(name, Tail(pattern))

\* C1: match returns the first type, in registration order, one of whose
\* extensions, mimetypes, filetypes or metafile patterns holds the query's
\* signal, and returns no match exactly when no type matches on any signal.
C1_MatchReturnsFirst ==
    matched # "pending" =>
       /\ matched = "none" <=>
            \A i \in 1..Len(PACKAGE_TYPES) : ~Recognizes(PACKAGE_TYPES[i], query)
       /\ matched # "none" =>
            \E i \in 1..Len(PACKAGE_TYPES) :
               /\ PACKAGE_TYPES[i].class = matched
               /\ Recognizes(PACKAGE_TYPES[i], query)
               /\ \A j \in 1..(i - 1) : ~Recognizes(PACKAGE_TYPES[j], query)

\* C1's case: a file that two types recognize goes to the earlier one
C1_Witness ==
    /\ matched = "JavaJar"
    /\ query.mimetype = M_zip
    /\ query.extension = E_zip
    /\ Recognizes(PlainZipPackage, query)

\* a type with a metafile pattern no other type declares
UniqueMetafile(i) ==
    \E pattern \in Range(PACKAGE_TYPES[i].metafiles) :
       \A j \in 1..Len(PACKAGE_TYPES) :
          j # i => pattern \notin Range(PACKAGE_TYPES[j].metafiles)

SharedSignals(i) == Range(PACKAGE_TYPES[i].extensions) \cup Range(PACKAGE_TYPES[i].mimetypes)

\* a type without metafiles, with an extension or media type that two or
\* more other types declare too
GenericOnly(i) ==
    /\ PACKAGE_TYPES[i].metafiles = <<>>
    /\ \E signal \in SharedSignals(i) :
          Cardinality({j \in 1..Len(PACKAGE_TYPES) :
                          j # i /\ signal \in SharedSignals(j)}) >= 2

CatchAlls == {"RarPackage", "TarPackage", "PlainZipPackage"}

UniqueMetafileTypes == {i \in 1..Len(PACKAGE_TYPES) : UniqueMetafile(i)}

GenericOnlyTypes == {i \in 1..Len(PACKAGE_TYPES) : GenericOnly(i)}

CatchAllTypes == {i \in 1..Len(PACKAGE_TYPES) : PACKAGE_TYPES[i].class \in CatchAlls}

\* C2: in the catalogue every type with a metafile name of its own stands
\* before every type whose signature is only an extension or media type
\* shared with two or more other types; the rar, tar and zip catch-alls
\* come last.  It is stated of the catalogue that match has gone through.
C2_SpecificBeforeGeneric ==
    matched # "pending" =>
       /\ \A i \in UniqueMetafileTypes : \A j \in GenericOnlyTypes : i < j
       /\ \A j \in CatchAllTypes :
             \A i \in (1..Len(PACKAGE_TYPES)) \ CatchAllTypes : i < j

\* C2's case: a file with the ivy.xml metafile and the .zip extension, which
\* the zip catch-all recognizes too, goes to the Ivy type
C2_Witness ==
    /\ matched = "IvyJar"
    /\ N_ivy \in query.metafiles
    /\ Recognizes(PlainZipPackage, query)
    /\ UniqueMetafileTypes # {}
    /\ GenericOnlyTypes # {}

----------------------------------------------------------------------------
(* packagedcode.phpcomposer: parse *)

UpperLetters == <<"A","B","C","D","E","F","G","H","I","J","K","L","M","N","O","P","Q","R","S","T","U","V","W","X","Y","Z">>
LowerLetters == <<"a","b","c","d","e","f","g","h","i","j","k","l","m","n","o","p","q","r","s","t","u","v","w","x","y","z">>
S_composer_json == <<"c","o","m","p","o","s","e","r",".","j","s","o","n">>

\* str.lower(), on ASCII letters
lower(s) ==
    [i \in 1..Len(s) |->
        IF \E k \in 1..Len(UpperLetters) : UpperLetters[k] = s[i]
        THEN LowerLetters[CHOOSE k \in 1..Len(UpperLetters) : UpperLetters[k] = s[i]]
        ELSE s[i]]

\* is_phpcomposer_json without lower(): the name compared as it is
is_phpcomposer_json_exact(loc) ==
    loc.is_file /\ loc.file_name = S_composer_json

\* filetype.is_file(location) and file_name(location).lower() == 'composer.json'
is_phpcomposer_json(loc) ==
    loc.is_file /\ lower(loc.file_name) = S_composer_json

\* json.load that gives None for text that does not decode
json_load_lenient(text) ==
    [document |-> text.document, raised |-> "", args |-> <<>>]

\* json.load of the file's text: the document it encodes, or the decoder's
\* ValueError with the decoder's message as its only argument
json_load(text) ==
    IF text.valid THEN [document |-> text.document, raised |-> "", args |-> <<>>]
    ELSE [document |-> None, raised |-> "ValueError", args |-> <<text.diagnostic>>]

\* an exception that carries arguments, handed to the caller
RaisedWith(exception, args) ==
    [status |-> "raised", package |-> None, exception |-> exception, args |-> args]

\* parse(location): what it hands to its caller, whether it opened the
\* file, and the data it decoded
parse(loc) ==
    IF ~is_phpcomposer_json(loc)
    THEN [result |-> Returned(None), opened |-> FALSE, package_data |-> Dict(<<>>)]
    ELSE LET loaded == json_load(loc.text) IN
         IF loaded.raised # ""
         THEN [result |-> RaisedWith(loaded.raised, loaded.args), opened |-> TRUE,
               package_data |-> Dict(<<>>)]
         ELSE [result |-> build_package(loaded.document, Str(loc.parent_directory)),
               opened |-> TRUE, package_data |-> loaded.document]

----------------------------------------------------------------------------
(* Specification: parse called on one location *)

MaxParseKeys == 1   \* keys of the manifest in the file parse is given

L_mixed == <<"C","o","m","p","o","s","e","r",".","J","S","O","N">>
L_upper == <<"C","O","M","P","O","S","E","R",".","J","S","O","N">>
L_lock == <<"c","o","m","p","o","s","e","r",".","l","o","c","k">>
L_package == <<"p","a","c","k","a","g","e",".","j","s","o","n">>
S_no_json == <<"N","o"," ","J","S","O","N"," ","o","b","j","e","c","t"," ","c","o","u","l","d"," ","b","e"," ","d","e","c","o","d","e","d">>

FileNames == {S_composer_json, L_mixed, L_upper, L_lock, L_package}

\* what a file holds: text that does not decode, with the decoder's
\* diagnostic, or the text of a JSON document
FileTexts(n) ==
    {[valid |-> FALSE, document |-> None, diagnostic |-> Str(S_no_json)]}
    \cup {[valid |-> TRUE, document |-> d, diagnostic |-> None] :
             d \in Manifests(n) \cup {List(<<>>)}}

Locations(n) ==
    [is_file : BOOLEAN, file_name : FileNames, parent_directory : {S_src},
     text : FileTexts(n)]

InitParse ==
    /\ IdleScan
    /\ IdleBuild
    /\ IdleRegistry
    /\ IdleMappers
    /\ IdleModel
    /\ location \in Locations(MaxParseKeys)
    /\ opened = FALSE

Parse ==
    /\ result.status = "pending"
    /\ result' = parse(location).result
    /\ opened' = parse(location).opened
    /\ package_data' = parse(location).package_data
    /\ UNCHANGED <<query, matched, package, call, napplied, location, other, answer,
                   heap, tasks>>

NextParse == Parse

SpecParse == InitParse /\ [][NextParse]_vars

----------------------------------------------------------------------------
(* packagedcode.models: the methods of Package *)

\* what a method call gives its caller: a value, or an exception
Gave(value) == [status |-> "returned", value |-> value, exception |-> ""]
Threw(exception) == [status |-> "raised", value |-> None, exception |-> exception]

\* PackageId = namedtuple('PackageId', 'type name version')
PackageId(type, name, version) ==
    [class |-> "PackageId", type |-> type, name |-> name, version |-> version]

\* the characters of the versions at hand, in the order of their code points
CodePoints == <<".", "0", "1", "2", "3", "4", "5", "6", "7", "8", "9">>
ord(c) == CHOOSE i \in 1..Len(CodePoints) : CodePoints[i] = c

RECURSIVE cmp_str(_, _)
\* cmp of two strings: by the first character that differs, a prefix first
cmp_str(a, b) ==
    IF a = <<>> /\ b = <<>> THEN 0
    ELSE IF a = <<>> THEN -1
    ELSE IF b = <<>> THEN 1
    ELSE IF Head(a) = Head(b) THEN cmp_str(Tail(a), Tail(b))
    ELSE IF ord(Head(a)) < ord(Head(b)) THEN -1 ELSE 1

\* cmp(x, y) of Python 2, on None and strings: None sorts before anything
cmp(x, y) ==
    IF x = y THEN 0
    ELSE IF x = None THEN -1
    ELSE IF y = None THEN 1
    ELSE cmp_str(x.v, y.v)

\* the methods of the values a package field holds
StringMethods == {"strip", "lower", "startswith", "partition", "join"}
HasMethod(x, method) == IsString(x) /\ method \in StringMethods

\* @property component_version: the version
component_version(self) == self.version

\* value(): calling a string or None
CallValue(value) == Threw("TypeError")

\* the identifier as the package had it when it was constructed
identifier_at_construction(self) ==
    PackageId(PHPComposerPackage.type, PHPComposerPackage.name, PHPComposerPackage.version)

\* @property identifier
identifier(self) == PackageId(self.type, self.name, self.version)

\* compare_version(self, other, component_level=False)
compare_version(self, oth, component_level) ==
    LET xcall == CallValue(component_version(self))
        ycall == CallValue(component_version(oth))
    IN  IF component_level /\ xcall.status = "raised" THEN xcall
        ELSE IF component_level /\ ycall.status = "raised" THEN ycall
        ELSE LET x == IF component_level /\ Truthy(xcall.value)
                      THEN xcall.value ELSE self.version
                 y == IF component_level /\ Truthy(ycall.value)
                      THEN ycall.value ELSE self.version
             IN  Gave(cmp(x, y))

\* sort_key(self)
sort_key(self) ==
    IF ~HasMethod(self.version, "sortable") THEN Threw("AttributeError")
    ELSE Gave(<<self.type, self.name, self.version>>)

----------------------------------------------------------------------------
(* packagedcode.models: serialization *)

\* Package.Options.fields_order
fields_order ==
    <<"type", "name", "version", "primary_language", "packaging", "summary",
      "description", "payload_type", "size", "release_date",
      "authors", "maintainers", "contributors", "owners", "packagers",
      "distributors", "vendors",
      "keywords", "keywords_doc_url",
      "homepage_url", "download_urls", "download_sha1", "download_sha256",
      "download_md5",
      "bug_tracking_url", "support_contacts", "code_view_url",
      "vcs_tool", "vcs_repository", "vcs_revision",
      "copyrights",
      "asserted_license", "license_expression", "license_texts", "notice_text",
      "dependencies", "related_packages">>

\* Options.fields_order of the class of a model instance
FieldsOrderOf(class) ==
    CASE class = "Party" -> <<"type", "name", "email", "url">>
      [] class = "Dependency" -> <<"type", "name", "version">>
      [] class = "BasePackage" -> <<"type", "name", "version", "payload_type">>
      [] OTHER -> fields_order

S_no_deps == <<"n","o","_","d","e","p","s">>

\* a roles table without the no_deps role
roles_without_no_deps(class, role) == {}

\* Options.roles: the fields a role of a class leaves out
roles(class, role) ==
    IF class \notin {"Party", "Dependency", "BasePackage"} /\ role = Str(S_no_deps)
    THEN {"dependencies", "related_packages"}
    ELSE {}

\* a value of the model is an instance of a model class
IsModel(x) == "class" \in DOMAIN x

RECURSIVE to_primitive(_, _)
\* to_primitive(role=role): a model instance as the ordered dict of its
\* fields, the instances inside it likewise
to_primitive(x, role) ==
    IF IsModel(x)
    THEN LET emitted == SelectSeq(FieldsOrderOf(x.class),
                           LAMBDA field : /\ field \in DOMAIN x
                                          /\ field \notin roles(x.class, role))
         IN  Dict([i \in 1..Len(emitted) |->
                     <<emitted[i], to_primitive(x[emitted[i]], role)>>])
    ELSE IF IsList(x)
    THEN List([i \in 1..Len(x.v) |-> to_primitive(x.v[i], role)])
    ELSE IF IsDict(x)
    THEN Dict([i \in 1..Len(x.v) |-> <<x.v[i][1], to_primitive(x.v[i][2], role)>>])
    ELSE x

\* BaseModel.to_dict(self, **kwargs)
to_dict(self, role) == to_primitive(self, role)

\* isinstance(value, PackageId)
IsPackageId(value) == IsModel(value) /\ value.class = "PackageId"

\* not value: a PackageId has three members, the other values are empty or not
Falsy(value) == ~IsPackageId(value) /\ ~Truthy(value)

\* v or u''
OrEmpty(x) == IF Truthy(x) THEN x.v ELSE <<>>

\* to_primitive handing back whatever is not a PackageId
PackageIndentifierType_to_primitive_accepting(value) ==
    IF IsPackageId(value)
    THEN Gave(Str(join(<<"|">>,
            <<OrEmpty(value.type), OrEmpty(value.name), OrEmpty(value.version)>>)))
    ELSE Gave(value)

\* PackageIndentifierType.to_primitive(self, value, context=None)
PackageIndentifierType_to_primitive(value) ==
    IF Falsy(value) THEN Gave(value)
    ELSE IF IsPackageId(value)
    THEN Gave(Str(join(<<"|">>,
            <<OrEmpty(value.type), OrEmpty(value.name), OrEmpty(value.version)>>)))
    ELSE Threw("TypeError")

----------------------------------------------------------------------------
(* Specification: assignments to two packages and calls of their methods *)

MaxOperations == 3  \* assignments and method calls on the two packages

S_1 == <<"1">>
S_2 == <<"2">>
S_10 == <<"1", "0">>
S_1_0 == <<"1", ".", "0">>

TypeValues == {Str(S_phpcomposer), None}
VersionValues == {Str(S_1), Str(S_2), Str(S_10), Str(S_1_0), None}
AssignedNames == {Str(S_acme_widget), None}

S_peer == <<"p","e","e","r">>
S_continuous_integration ==
    <<"c","o","n","t","i","n","u","o","u","s","-","i","n","t","e","g","r","a","t","i","o","n">>

\* the group names dependencies are recorded under
GroupNames == {dep_runtime, dep_ci, S_continuous_integration, S_peer}

InitModel ==
    /\ IdleScan
    /\ IdleBuild
    /\ IdleRegistry
    /\ IdleParse
    /\ package = PHPComposerPackage
    /\ other = PHPComposerPackage
    /\ call = NoCall
    /\ answer = NoAnswer
    /\ napplied = 0

\* one more operation on the packages
Operation(func, arg) ==
    /\ napplied < MaxOperations
    /\ napplied' = napplied + 1
    /\ call' = [func |-> func, arg |-> arg, raised |-> ""]
    /\ UNCHANGED <<package_data, result, query, matched, location, opened, heap, tasks>>

\* package.type = value, package.name = value, package.version = value
SetField ==
    \E field \in {"type", "name", "version"} :
       \E value \in (CASE field = "type" -> TypeValues
                       [] field = "name" -> AssignedNames
                       [] field = "version" -> VersionValues) :
          /\ Operation(field, value)
          /\ package' = [package EXCEPT ![field] = value]
          /\ UNCHANGED <<other, answer>>

\* other.version = value
SetOtherVersion ==
    \E value \in VersionValues :
       /\ Operation("other.version", value)
       /\ other' = [other EXCEPT !.version = value]
       /\ UNCHANGED <<package, answer>>

\* package.identifier
Identifier ==
    /\ Operation("identifier", None)
    /\ answer' = Gave(identifier(package))
    /\ UNCHANGED <<package, other>>

\* package.compare_version(other, component_level)
CompareVersion ==
    \E component_level \in BOOLEAN :
       /\ Operation("compare_version", Bool(component_level))
       /\ answer' = compare_version(package, other, component_level)
       /\ UNCHANGED <<package, other>>

\* package.sort_key()
SortKey ==
    /\ Operation("sort_key", None)
    /\ answer' = sort_key(package)
    /\ UNCHANGED <<package, other>>

\* package.to_dict() and package.to_dict(role='no_deps')
ToDict ==
    \E role \in {None, Str(S_no_deps)} :
       /\ Operation("to_dict", role)
       /\ answer' = Gave(to_dict(package, role))
       /\ UNCHANGED <<package, other>>

\* the values an identifier field is given, besides package.identifier
IdentifierValues ==
    {None, Str(<<>>), Num(0), List(<<>>), Str(S_acme_widget),
     List(<<Str(S_phpcomposer), Str(S_acme_widget), Str(S_1_0)>>)}

\* PackageIndentifierType().to_primitive(value)
IdentifierToPrimitive ==
    \E value \in IdentifierValues \cup {identifier(package)} :
       /\ Operation("to_primitive", value)
       /\ answer' = PackageIndentifierType_to_primitive(value)
       /\ UNCHANGED <<package, other>>

\* package.dependencies[group] = [Dependency(name=..., version=...)]
RecordDependencies ==
    \E group \in GroupNames :
       /\ Operation("dependencies", Str(group))
       /\ package' = [package EXCEPT !.dependencies =
             DictSet(@, group, List(<<Dependency(Str(S_monolog), Str(S_monolog_constraint))>>))]
       /\ UNCHANGED <<other, answer>>

NextModel ==
    \/ SetField
    \/ SetOtherVersion
    \/ Identifier
    \/ CompareVersion
    \/ SortKey
    \/ RecordDependencies
    \/ ToDict
    \/ IdentifierToPrimitive

SpecModel == InitModel /\ [][NextModel]_vars

----------------------------------------------------------------------------
(* Claims about the authors mapper, checked under Spec *)

ManifestAuthors == DictGet(package_data, K_authors)

\* the person Party of one author object: name, role and email without
\* surrounding whitespace and angle brackets, the homepage as url
PersonParty(person) ==
    Party(Str(party_person),
          AndStrip(DictGet(person, K_name), Whitespace),
          AndStrip(DictGet(person, K_role), Whitespace),
          AndStrip(DictGet(person, K_email), {"<", ">", " "}),
          AndStrip(DictGet(person, K_homepage), {"(", ")", " "}))

PersonParties(p) ==
    SelectSeq(AllParties(p), LAMBDA party : party.type = Str(party_person))

\* C11: the authors mapper records one person Party per author object of
\* the authors list, in list order, with the stripped name, role and email;
\* an authors value that is present and not a list fails the build with a
\* shape error, and no package with a Party comes back.
C11_AuthorsBecomeParties ==
    Done =>
       /\ (IsList(ManifestAuthors) /\ \A i \in 1..Len(ManifestAuthors.v) :
                                          IsDict(ManifestAuthors.v[i]))
          => /\ result.status = "returned"
             /\ PersonParties(result.package) =
                  [i \in 1..Len(ManifestAuthors.v) |-> PersonParty(ManifestAuthors.v[i])]
       /\ (HasKey(package_data, K_authors) /\ ~IsList(ManifestAuthors))
          => /\ result.status = "raised"
             /\ result.exception = "ValueError"

----------------------------------------------------------------------------
(* Claims about parse, checked under SpecParse *)

\* two names are equal up to the case of their ASCII letters
SameIgnoringCase(a, b) ==
    /\ Len(a) = Len(b)
    /\ \A i \in 1..Len(a) :
          \/ a[i] = b[i]
          \/ \E k \in 1..Len(UpperLetters) :
                {a[i], b[i]} = {UpperLetters[k], LowerLetters[k]}

\* the location is a regular file named composer.json in some casing
Eligible == location.is_file /\ SameIgnoringCase(location.file_name, S_composer_json)

\* the path of the location
LocationPath == location.parent_directory \o <<"/">> \o location.file_name

\* C12: parse returns None, without opening the file, whenever location is
\* not a regular file or its name is not composer.json in some casing; on a
\* regular file named composer.json in any casing it opens and decodes.
C12_IneligibleNotApplicable ==
    Done =>
       /\ ~Eligible => (result = Returned(None) /\ ~opened)
       /\ Eligible => opened

\* C12's case: the right name on something that is not a regular file
C12_Witness ==
    /\ Done
    /\ ~location.is_file
    /\ location.file_name = S_composer_json
    /\ location.text.valid
    /\ result = Returned(None)
    /\ ~opened

\* C13 as stated: when an eligible composer.json does not decode, parse
\* fails with a ManifestDecodeError that carries the path and the decoder's
\* diagnostic, and returns no package.
C13_DecodeErrorCarriesPath ==
    (Done /\ Eligible /\ ~location.text.valid)
    => /\ result.status = "raised"
       /\ result.package = None
       /\ result.exception = "ManifestDecodeError"
       /\ \E i \in 1..Len(result.args) : result.args[i] = Str(LocationPath)
       /\ \E i \in 1..Len(result.args) : result.args[i] = location.text.diagnostic

\* C13, amended: when an eligible composer.json does not decode, parse
\* fails with the decoder's own ValueError, whose only argument is the
\* decoder's diagnostic (the path is not in it), and returns no package.
C13_DecodeErrorIsValueError ==
    (Done /\ Eligible /\ ~location.text.valid)
    => /\ result.status = "raised"
       /\ result.package = None
       /\ result.exception = "ValueError"
       /\ result.args = <<location.text.diagnostic>>

\* C13's case: a file named Composer.JSON whose text does not decode
C13_Witness ==
    /\ Done
    /\ location.is_file
    /\ location.file_name = L_mixed
    /\ ~location.text.valid
    /\ opened
    /\ result.status = "raised"

----------------------------------------------------------------------------
(* Claims about the package build_package returns, checked under Spec *)

\* the manifest has the key with a value that is not empty, trimmed
Applicable(key) ==
    /\ Truthy(DictGet(package_data, key))
    /\ Truthy(StripIfString(DictGet(package_data, key)))

\* the value of the key as the field tables are given it
Trimmed(key) == StripIfString(DictGet(package_data, key))

\* C14: build_package either fails or returns a package to which every
\* entry of the two field tables that the manifest has (with a value that
\* is not empty) has been applied: each plain field holds the manifest's
\* value, no mapper of a present key fails on its value, and license,
\* require, require-dev and support have left their fields on the package.
C14_FullPackageOrFailure ==
    result.status = "returned" =>
       /\ \A i \in 1..Len(plain_fields) :
             Applicable(plain_fields[i][1])
             => result.package[plain_fields[i][2]] = Trimmed(plain_fields[i][1])
       /\ \A i \in 1..Len(field_mappers) :
             Applicable(field_mappers[i][1])
             => CallMapper(field_mappers[i][2], Trimmed(field_mappers[i][1]),
                           result.package).raised = ""
       /\ Applicable(K_license) => result.package.asserted_license # None
       /\ Applicable(K_require) => HasKey(result.package.dependencies, dep_runtime)
       /\ Applicable(K_require_dev) => HasKey(result.package.dependencies, dep_dev)
       /\ Applicable(K_support)
          => result.package.bug_tracking_url = OrNone(DictGet(Trimmed(K_support), K_issues))

\* C14's case: a package returned for a manifest with a name and a license
C14_Witness ==
    /\ result.status = "returned"
    /\ Applicable(K_name)
    /\ Applicable(K_license)
    /\ result.package.name = Trimmed(K_name)
    /\ result.package.asserted_license # None

\* C15: every package build_package returns has a type and a name that are
\* not empty.
C15_TypeAndNameNonEmpty ==
    result.status = "returned" =>
       /\ Truthy(result.package.type)
       /\ Truthy(result.package.name)

----------------------------------------------------------------------------
(* Claims about the methods of Package, checked under SpecModel *)

Sign(n) == IF n < 0 THEN -1 ELSE IF n > 0 THEN 1 ELSE 0

\* the last operation was package.compare_version(other, component_level)
ComparedVersions == napplied > 0 /\ call.func = "compare_version"

\* C16: compare_version is reflexive and antisymmetric: for all packages p
\* and q, p.compare_version(p) is 0 and the sign of p.compare_version(q) is
\* the opposite of the sign of q.compare_version(p).
C16_ReflexiveAntisymmetric ==
    ComparedVersions =>
        LET component_level == call.arg.v
            pp == compare_version(package, package, component_level)
            qp == compare_version(other, package, component_level)
        IN  /\ pp = Gave(0)
            /\ answer.status = "returned"
            /\ qp.status = "returned"
            /\ Sign(answer.value) = 0 - Sign(qp.value)

\* C17: p.compare_version(q, component_level) compares p's version with q's
\* own version as cmp does: negative when p's version is less, zero when
\* the two are equal, positive when p's version is greater.
C17_ComparesOwnVersions ==
    ComparedVersions =>
        /\ answer.status = "returned"
        /\ Sign(answer.value) = Sign(cmp(package.version, other.version))

\* C18: after any sequence of assignments to a package's type, name and
\* version, identifier returns the PackageId of the current type, name and
\* version, and a second call with no assignment in between returns an
\* equal result.
C18_IdentifierStep ==
    (napplied' = napplied + 1 /\ call'.func = "identifier") =>
        /\ package' = package
        /\ answer' = Gave(PackageId(package.type, package.name, package.version))
        /\ (napplied > 0 /\ call.func = "identifier" => answer' = answer)

C18_IdentifierIsCurrent == [][C18_IdentifierStep]_vars

C18_Witness ==
    /\ napplied = MaxOperations
    /\ call.func = "identifier"
    /\ package.name = Str(S_acme_widget)
    /\ package.version = Str(S_1_0)
    /\ answer = Gave(PackageId(Str(S_phpcomposer), Str(S_acme_widget), Str(S_1_0)))

\* C19: for every package with a version, sort_key returns the triple of
\* the type, the name and a sortable transform of the version.
C19_SortKeyTriple ==
    (napplied > 0 /\ call.func = "sort_key" /\ package.version # None) =>
        /\ answer.status = "returned"
        /\ Len(answer.value) = 3
        /\ answer.value[1] = package.type
        /\ answer.value[2] = package.name

----------------------------------------------------------------------------
(* Specification: a scan, the manifests of several files each built into   *)
(* a package by a task of its own, the steps of the tasks interleaved in   *)
(* any order                                                               *)

MaxTasks == 2   \* manifests of one scan

\* PHPComposerPackage() handing out the instance an earlier call constructed
NewInstance_shared(instances) ==
    IF instances = <<>>
    THEN [heap |-> <<PHPComposerPackage>>, ref |-> 1]
    ELSE [heap |-> instances, ref |-> 1]

\* PHPComposerPackage(): a new instance, and the reference to it
NewInstance(instances) ==
    [heap |-> Append(instances, PHPComposerPackage), ref |-> Len(instances) + 1]

ScanManifests ==
    {Dict(<< <<K_require, Dict(<< <<S_php, Str(S_php_constraint)>>,
                                  <<S_monolog, Str(S_monolog_constraint)>> >>)>> >>),
     Dict(<< <<K_require, Dict(<< <<S_php, Str(S_php_constraint)>> >>)>>,
             <<K_require_dev, Dict(<< <<S_phpunit, Str(S_phpunit_constraint)>> >>)>> >>),
     Dict(<< <<K_name, Str(S_acme_widget)>>,
             <<K_require, Dict(<< <<S_monolog, Str(S_monolog_constraint)>> >>)>> >>),
     Dict(<< <<K_name, Str(S_widget)>>, <<K_license, List(<<Str(S_MIT)>>)>>,
             <<K_repositories, List(<<Dict(<< <<K_type, Str(K_vcs)>>,
                                              <<K_url, Str(S_fossil_url)>> >>)>>)>> >>)}

\* a task before its first step
NewTask(data) ==
    [package_data |-> data, base_dir |-> Str(S_src), pc |-> "new", source |-> 1,
     ref |-> 0, raised |-> ""]

InitScan ==
    /\ IdleBuild
    /\ IdleRegistry
    /\ IdleParse
    /\ IdleModel
    /\ package = None
    /\ call = NoCall
    /\ napplied = 0
    /\ heap = <<>>
    /\ tasks \in [1..MaxTasks -> {NewTask(data) : data \in ScanManifests}]

\* a step of task i: the task and the instances as the step leaves them
Step(i, task, instances) ==
    /\ tasks' = [tasks EXCEPT ![i] = task]
    /\ heap' = instances
    /\ UNCHANGED <<package_data, result, query, matched, package, call, napplied,
                   location, opened, other, answer>>

\* package = PHPComposerPackage(); package.location = base_dir
Construct(i) ==
    /\ tasks[i].pc = "new"
    /\ LET new == NewInstance(heap) IN
       Step(i, [tasks[i] EXCEPT !.pc = "plain_fields", !.ref = new.ref],
            [new.heap EXCEPT ![new.ref].location = tasks[i].base_dir])

\* for source, target in plain_fields.items(): ...
PlainFields(i) ==
    /\ tasks[i].pc = "plain_fields"
    /\ Step(i, [tasks[i] EXCEPT !.pc = "field_mappers"],
            [heap EXCEPT ![tasks[i].ref] =
                plain_fields_loop(plain_fields, tasks[i].package_data, @)])

\* one turn of: for source, func in field_mappers.items(): ...
FieldMapper(i) ==
    /\ tasks[i].pc = "field_mappers"
    /\ LET task == tasks[i]
           entry == field_mappers[task.source]
           value == DictGet(task.package_data, entry[1])
           called == Truthy(value) /\ Truthy(StripIfString(value))
           r == IF called
                THEN CallMapper(entry[2], StripIfString(value), heap[task.ref])
                ELSE Ok(heap[task.ref])
       IN  Step(i,
                IF r.raised # ""
                THEN [task EXCEPT !.pc = "done", !.raised = r.raised]
                ELSE IF task.source = Len(field_mappers)
                THEN [task EXCEPT !.pc = "vendor_mapper"]
                ELSE [task EXCEPT !.source = @ + 1],
                [heap EXCEPT ![task.ref] = r.package])

\* vendor_mapper(package); return package
VendorMapper(i) ==
    /\ tasks[i].pc = "vendor_mapper"
    /\ LET r == vendor_mapper(heap[tasks[i].ref]) IN
       Step(i, [tasks[i] EXCEPT !.pc = "done", !.raised = r.raised],
            [heap EXCEPT ![tasks[i].ref] = r.package])

NextScan ==
    \E i \in 1..MaxTasks :
       Construct(i) \/ PlainFields(i) \/ FieldMapper(i) \/ VendorMapper(i)

SpecScan == InitScan /\ [][NextScan]_vars

----------------------------------------------------------------------------
(* Claims about a scan, checked under SpecScan *)

\* what task i handed to its caller, the package as it is now
Outcome(i) ==
    IF tasks[i].raised # "" THEN Raised(tasks[i].raised)
    ELSE Returned(heap[tasks[i].ref])

----------------------------------------------------------------------------
(* Claims about the dependencies of a package, checked under SpecModel *)

\* the group names a package's dependencies are recorded under
DependencyGroupsOf(p) == {p.dependencies.v[i][1] : i \in 1..Len(p.dependencies.v)}

\* C22: the keys of a package's dependencies mapping are restricted to the
\* closed enumeration of dependency groups; recording dependencies under an
\* unrecognized group is rejected and never silently accepted.
C22_GroupsInEnumeration ==
    DependencyGroupsOf(package) \subseteq Range(DEPENDENCY_GROUPS)

----------------------------------------------------------------------------
(* Claims about serialization, checked under SpecModel *)

\* the last operation was package.to_dict(role)
Serialized == napplied > 0 /\ call.func = "to_dict"

\* the keys of an ordered dict, in its order
KeysOf(d) == [i \in 1..Len(d.v) |-> d.v[i][1]]

\* a sequence without the members of a set, the order kept
Without(seq, left_out) == SelectSeq(seq, LAMBDA x : x \notin left_out)

----------------------------------------------------------------------------
(* Claims about the serialization of a PackageId, checked under SpecModel *)

\* the last operation was to_primitive(value) on an identifier value
IdentifierSerialized == napplied > 0 /\ call.func = "to_primitive"

\* a segment of an identifier: its text, empty when it is unset
Segment(x) == IF x = None THEN <<>> ELSE x.v

\* type|name|version
PipeJoined(id) ==
    Segment(id.type) \o <<"|">> \o Segment(id.name) \o <<"|">> \o Segment(id.version)

\* a PackageId serializes to the pipe-joined string
C24_PackageIdPipeJoined ==
    (IdentifierSerialized /\ IsPackageId(call.arg)) =>
        answer = Gave(Str(PipeJoined(call.arg)))

\* C24 as the specification states it: a PackageId serializes to the
\* pipe-joined string type|name|version, an unset segment emitted as the empty
\* string, and a value that is not a PackageId is rejected as an invalid
\* identifier.
C24_PipeJoinedElseRejected ==
    /\ C24_PackageIdPipeJoined
    /\ (IdentifierSerialized /\ ~IsPackageId(call.arg)) => answer.status = "raised"

\* C24, amended: a PackageId serializes to the pipe-joined string
\* type|name|version, an unset segment emitted as the empty string; a
\* non-empty value that is not a PackageId is rejected with a TypeError, and
\* an empty value (None, an empty string, zero, an empty list) is handed back
\* as it is.
C24_PipeJoinedEmptyKeptElseRejected ==
    /\ C24_PackageIdPipeJoined
    /\ (IdentifierSerialized /\ ~IsPackageId(call.arg)) =>
          IF Truthy(call.arg) THEN answer = Threw("TypeError")
          ELSE answer = Gave(call.arg)

\* C24's case: the identifier of a package with a name and no version
C24_Witness ==
    /\ IdentifierSerialized
    /\ IsPackageId(call.arg)
    /\ call.arg.version = None
    /\ answer = Gave(Str(S_phpcomposer \o <<"|">> \o S_acme_widget \o <<"|">>))

----------------------------------------------------------------------------
(* Claims about the plain field table, checked under Spec *)

\* the table as the specification gives it: manifest key, target attribute
PlainFieldTable ==
    << <<K_name, "name">>, <<K_description, "summary">>, <<K_keywords, "keywords">>,
       <<K_version, "version">>, <<K_homepage, "homepage_url">> >>

\* the manifest's value of a key, trimmed when it is a string
TrimmedValue(key) ==
    LET value == DictGet(package_data, key)
    IN  IF IsString(value) THEN Str(strip(value.v)) ELSE value

\* the key is present with a value that is not empty after trimming
PresentNonEmpty(key) ==
    /\ HasKey(package_data, key)
    /\ TrimmedValue(key) \notin {None, Str(<<>>), List(<<>>), Dict(<<>>)}

\* C25: the plain field table (name to name, description to summary,
\* keywords to keywords, version to version, homepage to homepage_url) sets a
\* target attribute to the manifest value, trimmed when it is a string,
\* exactly when the manifest key is present and non-empty after trimming;
\* for an absent, empty or whitespace-only value the target attribute is left
\* at its default.
C25_PlainFieldsSetWhenNonEmpty ==
    result.status = "returned" =>
       \A i \in 1..Len(PlainFieldTable) :
          LET key == PlainFieldTable[i][1]
              target == PlainFieldTable[i][2]
          IN  IF PresentNonEmpty(key)
              THEN result.package[target] = TrimmedValue(key)
              ELSE result.package[target] = PHPComposerPackage[target]

\* C25's case: a description with surrounding whitespace beside a name of
\* whitespace only
C25_Witness ==
    /\ result.status = "returned"
    /\ DictGet(package_data, K_name) = Str(S_blank)
    /\ DictGet(package_data, K_description) = Str(S_summary)
    /\ result.package.name = None
    /\ result.package.summary = Str(strip(S_summary))
    /\ result.package.summary # Str(S_summary)

----------------------------------------------------------------------------
(* Claims about a repositories list of several entries, checked under      *)
(* SpecRepos                                                               *)

\* this step is repository_mapper returning from a list of entries
MapsRepositoryList ==
    /\ napplied' = napplied + 1
    /\ call'.func = "repository_mapper"
    /\ call'.raised = ""
    /\ IsList(call'.arg)

\* C26: of the entries of a repositories list only those with type == "vcs"
\* change the package: entries of any other type leave vcs_tool and
\* vcs_repository as they were, and after the mapper both fields hold the
\* values of the last vcs entry in list order, each later vcs entry
\* overwriting the earlier one.
C26_Step ==
    MapsRepositoryList =>
        LET vcs == VcsEntries(call'.arg) IN
        /\ vcs = <<>> =>
              /\ package'.vcs_tool = package.vcs_tool
              /\ package'.vcs_repository = package.vcs_repository
        /\ vcs # <<>> =>
              /\ package'.vcs_tool = Str(ToolByPriority(LastVcsUrl(call'.arg)))
              /\ package'.vcs_repository = parse_repo_url(Str(LastVcsUrl(call'.arg)))
        /\ package' = repository_mapper(List(vcs), package).package

C26_LastVcsEntryWins == [][C26_Step]_vars

\* C26's case: two vcs entries whose URLs give different tools, the tool of
\* the second recorded
C26_Witness ==
    /\ call.func = "repository_mapper"
    /\ call.raised = ""
    /\ IsList(call.arg)
    /\ Len(call.arg.v) = 2
    /\ Len(VcsEntries(call.arg)) = 2
    /\ package.vcs_tool = Str(ToolByPriority(LastVcsUrl(call.arg)))
    /\ package.vcs_tool # Str(ToolByPriority(DictGet(call.arg.v[1], K_url).v))

=============================================================================
